---- MODULE Spec2Model ----
(***************************************************************************)
(* A model of the numeric core of quant-research-system:                   *)
(*   src/risk_layer.py        RiskManager                                  *)
(*   src/quantlib_analyzer.py QuantLibAnalyzer                             *)
(*   src/main.py              InvestmentAdvisor                            *)
(*                                                                         *)
(* Units.  The program computes in binary floating point; the model uses   *)
(* exact integers in fixed units:                                          *)
(*   MOVE, VIX, spot, strike, portfolio value : whole index points / won   *)
(*   rates and yields                         : 1e-4 (0.0427 is 427)       *)
(*   allocations                              : 1e-3 (0.12 is 120)         *)
(*   stop-loss percentages                    : 1e-2 (0.05 is 5)           *)
(*   option prices and values                 : 1e-4                       *)
(*   kappa                                    : 1e-2 (0.25 is 25)          *)
(* Python's round() is modelled by RoundHalfEven on the exact quotient;    *)
(* the sampled inputs are such that no reported value is a tie that the    *)
(* binary product would break the other way.                               *)
(***************************************************************************)
EXTENDS Integers, Sequences, FiniteSets, TLC

VARIABLES
    clock,           \* the wall clock, in ticks (datetime.now, ql.Date.todaysDate)
    evaluationDate,  \* ql.Settings.instance().evaluationDate: process-wide
    constructed,     \* the analyzers whose __init__ has run
    today,           \* today[a]: self.today of analyzer a
    input,           \* the arguments of the call under study
    output           \* the value the last call returned (or how it failed)

vars == <<clock, evaluationDate, constructed, today, input, output>>

----------------------------------------------------------------------------
(* Bounds of the model *)

\* MOVE inputs range over 0..MaxMove (thresholds 80, 100, 120, 150)
MaxMove == 160
\* VIX inputs range over 0..MaxVix (thresholds 15, 20, 25, 35)
MaxVix == 40
\* portfolio values range over MinPortfolio..MinPortfolio+PortfolioSpan
MinPortfolio == 1500
PortfolioSpan == 6
\* the clock runs from tick 0 to tick MaxClock
MaxClock == 2
\* analyzers (each RiskManager owns one QuantLibAnalyzer) are 1..NumAnalyzers
NumAnalyzers == 2
\* a yield mapping has at most MaxCurvePoints entries
MaxCurvePoints == 3
\* kappa ranges over -0.05*MaxKappaStep .. 0.05*MaxKappaStep in steps of 0.05
MaxKappaStep == 6

Analyzers == 1..NumAnalyzers

\* The inputs sampled from a range: every multiple of step and the value
\* just below it, so that each threshold t is met at t-1 and at t.
Around(max, step) == {v \in 0..max : v % step = 0 \/ v % step = step - 1}

MoveValues == Around(MaxMove, 10)
VixValues == Around(MaxVix, 5)
PortfolioValues == MinPortfolio..(MinPortfolio + PortfolioSpan)

----------------------------------------------------------------------------
(* Python helpers *)

NoResult == [kind |-> "none"]

\* the empty dict {} (market_data = None becomes {}, risk_layer.py line 45)
EmptyData == [k \in {} |-> 0]

\* dict.get(key, default)
Get(d, key, default) == IF key \in DOMAIN d THEN d[key] ELSE default

\* round(num / den) to a whole number, ties to even (Python 3 round), den # 0
RoundHalfEven(num, den) ==
    LET n == IF den < 0 THEN -num ELSE num
        d == IF den < 0 THEN -den ELSE den
        q == n \div d
        r == n % d
    IN  IF 2 * r < d THEN q
        ELSE IF 2 * r > d THEN q + 1
        ELSE IF q % 2 = 0 THEN q ELSE q + 1

----------------------------------------------------------------------------
(* RiskManager: src/risk_layer.py *)

move_thresholds == [low |-> 80, medium |-> 100, high |-> 120, extreme |-> 150]

vix_thresholds == [low |-> 15, medium |-> 20, high |-> 25, extreme |-> 35]

\* The ladder with a score that dips in the third bucket.
BucketScoreDip(value, thresholds) ==
    IF value < thresholds.low THEN 10
    ELSE IF value < thresholds.medium THEN 25
    ELSE IF value < thresholds.high THEN 20
    ELSE IF value < thresholds.extreme THEN 45
    ELSE 50

\* The ladder with <= for <: a value on a threshold stays in the lower bucket.
BucketScoreInclusive(value, thresholds) ==
    IF value <= thresholds.low THEN 10
    ELSE IF value <= thresholds.medium THEN 25
    ELSE IF value <= thresholds.high THEN 35
    ELSE IF value <= thresholds.extreme THEN 45
    ELSE 50

\* the if/elif ladder of _calculate_risk_metrics, lines 79-88 and 91-100
BucketScore(value, thresholds) ==
    IF value < thresholds.low THEN 10
    ELSE IF value < thresholds.medium THEN 25
    ELSE IF value < thresholds.high THEN 35
    ELSE IF value < thresholds.extreme THEN 45
    ELSE 50

\* The level ladder with <= for <.
RiskLevelShifted(risk_score) ==
    IF risk_score <= 40 THEN "LOW"
    ELSE IF risk_score <= 60 THEN "MEDIUM"
    ELSE IF risk_score <= 80 THEN "HIGH"
    ELSE "EXTREME"

\* lines 106-113
RiskLevel(risk_score) ==
    IF risk_score < 40 THEN "LOW"
    ELSE IF risk_score < 60 THEN "MEDIUM"
    ELSE IF risk_score < 80 THEN "HIGH"
    ELSE "EXTREME"

\* vol_multiplier = (vix / 20) * (move / 100) is carried exactly, in 1e-4: the
\* report rounds it to 3 decimals, and on a tie (vix * move odd) the digit
\* depends on the binary representation of the product.
_calculate_risk_metrics(move, vix) ==
    LET move_score == BucketScore(move, move_thresholds)
        vix_score == BucketScore(vix, vix_thresholds)
        risk_score == move_score + vix_score
    IN  [risk_level |-> RiskLevel(risk_score),
         risk_score |-> risk_score,
         move_contribution |-> move_score,
         vix_contribution |-> vix_score,
         vol_multiplier |-> 5 * vix * move,
         move_value |-> move,
         vix_value |-> vix]

\* base_allocation = 0.1, in 1e-3
base_allocation == 100

\* risk_adj, in 1e-1: 1.2 / 1.0 / 0.7 / 0.4
RiskAdjustment(risk_score) ==
    IF risk_score < 40 THEN 12
    ELSE IF risk_score < 60 THEN 10
    ELSE IF risk_score < 80 THEN 7
    ELSE 4

\* stop_loss, in 1e-2: 0.05 / 0.03 / 0.02
StopLoss(risk_score) ==
    IF risk_score < 40 THEN 5
    ELSE IF risk_score < 60 THEN 3
    ELSE 2

\* stop_loss_value as if computed from the rounded max_position_value
StopLossValueFromReported(portfolio_value, alloc4, stop_loss) ==
    RoundHalfEven(RoundHalfEven(portfolio_value * alloc4, 10000) * stop_loss, 100)

\* round(max_position * stop_loss, 0): max_position is the unrounded product
\* portfolio_value * adjusted_allocation (alloc4 is that allocation in 1e-4)
StopLossValue(portfolio_value, alloc4, stop_loss) ==
    RoundHalfEven(portfolio_value * alloc4 * stop_loss, 1000000)

_calculate_position_sizing(risk_score, portfolio_value) ==
    LET risk_adj == RiskAdjustment(risk_score)
        \* adjusted_allocation = base_allocation * risk_adj, in 1e-4
        alloc4 == base_allocation * risk_adj
        stop_loss == StopLoss(risk_score)
    IN  [base_allocation |-> base_allocation,
         risk_adjustment |-> risk_adj,
         adjusted_allocation |-> RoundHalfEven(alloc4, 10),
         max_position_value |-> RoundHalfEven(portfolio_value * alloc4, 10000),
         stop_loss_pct |-> stop_loss,
         stop_loss_value |-> StopLossValue(portfolio_value, alloc4, stop_loss)]

\* _calculate_var: confidence and z are in 1e-3 (0.95 is 950, 1.645 is 1645).
\* With num = portfolio_value * vix * z, the unrounded var_1d is
\* num / (1e5 * sqrt(252)); the square roots are carried as divisors in 1e-5.

\* 1e5 * sqrt(252), the divisor of var_1d
Sqrt252 == 1587451

\* 1e5 * sqrt(252) / sqrt(5), the divisor of var_5d = var_1d * np.sqrt(5)
Sqrt252Over5 == 709930

\* 1e5 * sqrt(252) / sqrt(20), the divisor of var_20d = var_1d * np.sqrt(20)
Sqrt252Over20 == 354965

\* line 171
z_score == (900 :> 1280) @@ (950 :> 1645) @@ (990 :> 2330)

\* The lookup with the lowest z as the default.
ZScoreDefaultLow(confidence) == Get(z_score, confidence, 1280)

\* z_score.get(confidence, 1.645), line 172
ZScore(confidence) == Get(z_score, confidence, 1645)

\* The one-day figure reported for every horizon.
ScaledVarOneDay(num, divisor) == RoundHalfEven(num, Sqrt252)

\* round(var_1d * np.sqrt(days), 0), lines 175-176 and 186-187, with
\* `divisor` = 1e5 * sqrt(252 / days): the unrounded product is rounded
ScaledVar(num, divisor) == RoundHalfEven(num, divisor)

\* _calculate_var(portfolio_value, vix, confidence), lines 168-190:
\* daily_volatility in 1e-3 percent; the interpretation text is not carried
_calculate_var(portfolio_value, vix, confidence) ==
    LET z == ZScore(confidence)
        num == portfolio_value * vix * z
    IN  [confidence_level |-> confidence,
         daily_volatility |-> RoundHalfEven(vix * 10000000, Sqrt252 \div 10),
         var_1d |-> RoundHalfEven(num, Sqrt252),
         var_5d |-> ScaledVar(num, Sqrt252Over5),
         var_20d |-> ScaledVar(num, Sqrt252Over20),
         \* es_multiplier = 1.25
         cvar_1d |-> RoundHalfEven(5 * num, 4 * Sqrt252)]

----------------------------------------------------------------------------
(* QuantLibAnalyzer.vasicek_analysis: src/quantlib_analyzer.py *)

\* ln(2) in 1e-6
Ln2Micro == 693147

\* round(np.log(2) / a, 2) in 1e-2 years, for kappa (in 1e-2) other than 0
HalfLifeYears(kappa) ==
    IF kappa > 0 THEN RoundHalfEven(Ln2Micro, 100 * kappa)
    ELSE -RoundHalfEven(Ln2Micro, 100 * (-kappa))

\* vasicek_analysis(r0, kappa, theta, sigma).  With kappa = 0 the first
\* division, sigma**2 / (2 * a) at line 48, raises ZeroDivisionError; every
\* other kappa runs to the return statement.  The fields computed with
\* np.exp, np.sqrt and np.log (expected_path, rate_volatility, zcb_prices)
\* are not carried: percentages are in 1e-3 percent (round(x * 100, 3)),
\* scenario rates in 1e-2 percent, probabilities in 1e-2.
VasicekResult(r0, kappa, theta, sigma) ==
    IF kappa = 0 THEN [kind |-> "raise", value |-> "ZeroDivisionError", caught |-> {}]
    ELSE [kind |-> "return", caught |-> {},
          value |-> [model |-> "Vasicek",
                     parameters |-> [r0 |-> 10 * r0, kappa |-> kappa,
                                     theta |-> 10 * theta, sigma |-> 10 * sigma],
                     scenarios |-> [base |-> [rate |-> r0, prob |-> 50],
                                    up_1std |-> [rate |-> r0 + sigma, prob |-> 25],
                                    down_1std |-> [rate |-> r0 - sigma, prob |-> 25]],
                     half_life_years |-> HalfLifeYears(kappa),
                     long_term_rate |-> 10 * theta]]

----------------------------------------------------------------------------
(* QuantLibAnalyzer.yield_curve_analysis *)

\* tenor_map, in months
tenor_map ==
    [l \in {"1M", "3M", "6M", "1Y", "2Y", "3Y", "5Y", "7Y", "10Y", "30Y"} |->
        CASE l = "1M" -> 1 [] l = "3M" -> 3 [] l = "6M" -> 6 [] l = "1Y" -> 12
          [] l = "2Y" -> 24 [] l = "3Y" -> 36 [] l = "5Y" -> 60 [] l = "7Y" -> 84
          [] l = "10Y" -> 120 [] l = "30Y" -> 360]

\* the loop of lines 203-208: the <<tenor, yield>> of each recognized label,
\* in the order of rates.items(); rates is a sequence of <<label, rate>>
RECURSIVE UsablePoints(_)
UsablePoints(rates) ==
    IF rates = <<>> THEN <<>>
    ELSE LET head == rates[1]
         IN  (IF head[1] \in DOMAIN tenor_map
              THEN <<<<tenor_map[head[1]], head[2]>>>>
              ELSE <<>>) \o UsablePoints(Tail(rates))

\* The order by yield first, then tenor.
PointLessByYield(p, q) == p[2] < q[2] \/ (p[2] = q[2] /\ p[1] < q[1])

\* tuple order of sorted(zip(tenors, yields))
PointLess(p, q) == p[1] < q[1] \/ (p[1] = q[1] /\ p[2] < q[2])

RECURSIVE InsertPoint(_, _)
InsertPoint(p, sorted) ==
    IF sorted = <<>> THEN <<p>>
    ELSE IF PointLess(p, sorted[1]) THEN <<p>> \o sorted
    ELSE <<sorted[1]>> \o InsertPoint(p, Tail(sorted))

RECURSIVE SortedPoints(_)
SortedPoints(points) ==
    IF points = <<>> THEN <<>>
    ELSE InsertPoint(points[1], SortedPoints(Tail(points)))

\* lines 224-235: slope > 0.5, slope > 0, slope > -0.5 (slope in 1e-4)
CurveShape(slope) ==
    IF slope > 5000 THEN "STEEP"
    ELSE IF slope > 0 THEN "NORMAL"
    ELSE IF slope > -5000 THEN "FLAT"
    ELSE "INVERTED"

\* The forward rates with the longer tenor alone as the divisor.
ForwardRatesOverLongTenor(points) ==
    [i \in 1..(Len(points) - 1) |->
        LET t1 == points[i][1]
            t2 == points[i + 1][1]
            r1 == points[i][2]
            r2 == points[i + 1][2]
        IN  [t1 |-> t1, t2 |-> t2,
             fwd |-> RoundHalfEven(10 * (r2 * t2 - r1 * t1), t2)]]

\* lines 242-248: one forward rate per adjacent pair, in 1e-3 percent
ForwardRates(points) ==
    [i \in 1..(Len(points) - 1) |->
        LET t1 == points[i][1]
            t2 == points[i + 1][1]
            r1 == points[i][2]
            r2 == points[i + 1][2]
        IN  [t1 |-> t1, t2 |-> t2,
             fwd |-> RoundHalfEven(10 * (r2 * t2 - r1 * t1), t2 - t1)]]

\* The length test with an off-by-one: a single point passes.
InsufficientOnlyWhenEmpty(points) == Len(points) < 1

\* line 210
Insufficient(points) == Len(points) < 2

\* slope_bps in 1e-1 bp, short_rate and long_rate in 1e-3 percent.  Lines
\* 219-239 test the number of points once more: with fewer than two the shape
\* is "UNKNOWN" and the slope 0.
yield_curve_analysis(rates) ==
    LET usable == UsablePoints(rates)
        points == SortedPoints(usable)
        slope == points[Len(points)][2] - points[1][2]
    IN  IF Insufficient(usable) THEN [error |-> "Insufficient data"]
        ELSE [curve_shape |-> IF Len(points) >= 2 THEN CurveShape(slope)
                              ELSE "UNKNOWN",
              slope_bps |-> IF Len(points) >= 2 THEN 10 * slope ELSE 0,
              short_rate |-> 10 * points[1][2],
              long_rate |-> 10 * points[Len(points)][2],
              forward_rates |-> ForwardRates(points),
              data_points |-> Len(points)]

----------------------------------------------------------------------------
(* QuantLibAnalyzer.black_scholes_analysis *)

\* one clock tick, in days: maturities are counted in days
DaysPerTick == 30

\* What ql.AnalyticEuropeanEngine returns for a 30-day European option on
\* the sampled inputs <<type, spot, strike, rate (1e-4), volatility (1e-2)>>:
\* the Black-Scholes-Merton closed form with tau = 30/365, the price in 1e-6,
\* delta in 1e-4, gamma in 1e-6, theta per day, vega and rho per point, the
\* last three in 1e-4.
EngineTable ==
    <<"call", 2600, 2600, 0, 14>> :>
        [price |-> 41629049, delta |-> 5080, gamma |-> 3822, theta |-> -6937, vega |-> 29731, rho |-> 10514] @@
    <<"call", 2600, 2600, 0, 18>> :>
        [price |-> 53520718, delta |-> 5103, gamma |-> 2972, theta |-> -8918, vega |-> 29727, rho |-> 10465] @@
    <<"call", 2600, 2600, 0, 36>> :>
        [price |-> 107005817, delta |-> 5206, gamma |-> 1485, theta |-> -17818, vega |-> 29697, rho |-> 10245] @@
    <<"call", 2600, 2600, 427, 14>> :>
        [price |-> 46269340, delta |-> 5428, gamma |-> 3801, theta |-> -8496, vega |-> 29566, rho |-> 11219] @@
    <<"call", 2600, 2600, 427, 18>> :>
        [price |-> 58104916, delta |-> 5374, gamma |-> 2960, theta |-> -10448, vega |-> 29606, rho |-> 11006] @@
    <<"call", 2600, 2600, 427, 36>> :>
        [price |-> 111434540, delta |-> 5341, gamma |-> 1481, theta |-> -19271, vega |-> 29628, rho |-> 10498] @@
    <<"call", 2600, 2650, 0, 14>> :>
        [price |-> 21674755, delta |-> 3247, gamma |-> 3448, theta |-> -6258, vega |-> 26819, rho |-> 6761] @@
    <<"call", 2600, 2650, 0, 18>> :>
        [price |-> 32674300, delta |-> 3657, gamma |-> 2803, theta |-> -8411, vega |-> 28035, rho |-> 7546] @@
    <<"call", 2600, 2650, 0, 36>> :>
        [price |-> 84867774, delta |-> 4471, gamma |-> 1474, theta |-> -17685, vega |-> 29475, rho |-> 8857] @@
    <<"call", 2600, 2650, 427, 14>> :>
        [price |-> 24701954, delta |-> 3568, gamma |-> 3574, theta |-> -7543, vega |-> 27800, rho |-> 7421] @@
    <<"call", 2600, 2650, 427, 18>> :>
        [price |-> 36008217, delta |-> 3915, gamma |-> 2863, theta |-> -9738, vega |-> 28631, rho |-> 8071] @@
    <<"call", 2600, 2650, 427, 36>> :>
        [price |-> 88704546, delta |-> 4606, gamma |-> 1479, theta |-> -19052, vega |-> 29592, rho |-> 9114] @@
    <<"call", 2600, 2700, 0, 14>> :>
        [price |-> 9912957, delta |-> 1787, gamma |-> 2503, theta |-> -4544, vega |-> 19472, rho |-> 3738] @@
    <<"call", 2600, 2700, 0, 18>> :>
        [price |-> 18515989, delta |-> 2402, gamma |-> 2318, theta |-> -6955, vega |-> 23185, rho |-> 4982] @@
    <<"call", 2600, 2700, 0, 36>> :>
        [price |-> 66267663, delta |-> 3767, gamma |-> 1415, theta |-> -16984, vega |-> 28306, rho |-> 7506] @@
    <<"call", 2600, 2700, 427, 14>> :>
        [price |-> 11613121, delta |-> 2025, gamma |-> 2703, theta |-> -5508, vega |-> 21023, rho |-> 4232] @@
    <<"call", 2600, 2700, 427, 18>> :>
        [price |-> 20737355, delta |-> 2619, gamma |-> 2427, theta |-> -8053, vega |-> 24268, rho |-> 5426] @@
    <<"call", 2600, 2700, 427, 36>> :>
        [price |-> 69526212, delta |-> 3897, gamma |-> 1430, theta |-> -18260, vega |-> 28593, rho |-> 7757] @@
    <<"call", 2650, 2600, 0, 14>> :>
        [price |-> 71674755, delta |-> 6896, gamma |-> 3319, theta |-> -6258, vega |-> 26819, rho |-> 14430] @@
    <<"call", 2650, 2600, 0, 18>> :>
        [price |-> 82674300, delta |-> 6535, gamma |-> 2698, theta |-> -8411, vega |-> 28035, rho |-> 13555] @@
    <<"call", 2650, 2600, 0, 36>> :>
        [price |-> 134867774, delta |-> 5933, gamma |-> 1419, theta |-> -17685, vega |-> 29475, rho |-> 11815] @@
    <<"call", 2650, 2600, 427, 14>> :>
        [price |-> 77966988, delta |-> 7197, gamma |-> 3166, theta |-> -8110, vega |-> 25586, rho |-> 15036] @@
    <<"call", 2650, 2600, 427, 18>> :>
        [price |-> 88567769, delta |-> 6783, gamma |-> 2621, theta |-> -10168, vega |-> 27229, rho |-> 14046] @@
    <<"call", 2650, 2600, 427, 36>> :>
        [price |-> 139965083, delta |-> 6065, gamma |-> 1406, theta |-> -19250, vega |-> 29223, rho |-> 12059] @@
    <<"call", 2650, 2650, 0, 14>> :>
        [price |-> 42429608, delta |-> 5080, gamma |-> 3750, theta |-> -7071, vega |-> 30303, rho |-> 10716] @@
    <<"call", 2650, 2650, 0, 18>> :>
        [price |-> 54549962, delta |-> 5103, gamma |-> 2916, theta |-> -9090, vega |-> 30299, rho |-> 10666] @@
    <<"call", 2650, 2650, 0, 36>> :>
        [price |-> 109063622, delta |-> 5206, gamma |-> 1457, theta |-> -18161, vega |-> 30269, rho |-> 10442] @@
    <<"call", 2650, 2650, 427, 14>> :>
        [price |-> 47159135, delta |-> 5428, gamma |-> 3729, theta |-> -8659, vega |-> 30134, rho |-> 11435] @@
    <<"call", 2650, 2650, 427, 18>> :>
        [price |-> 59222318, delta |-> 5374, gamma |-> 2904, theta |-> -10649, vega |-> 30176, rho |-> 11218] @@
    <<"call", 2650, 2650, 427, 36>> :>
        [price |-> 113577511, delta |-> 5341, gamma |-> 1453, theta |-> -19642, vega |-> 30198, rho |-> 10700] @@
    <<"call", 2650, 2700, 0, 14>> :>
        [price |-> 22391569, delta |-> 3279, gamma |-> 3396, theta |-> -6404, vega |-> 27444, rho |-> 6958] @@
    <<"call", 2650, 2700, 0, 18>> :>
        [price |-> 33637002, delta |-> 3683, gamma |-> 2757, theta |-> -8592, vega |-> 28641, rho |-> 7745] @@
    <<"call", 2650, 2700, 0, 36>> :>
        [price |-> 86891502, delta |-> 4485, gamma |-> 1446, theta |-> -18033, vega |-> 30056, rho |-> 9054] @@
    <<"call", 2650, 2700, 427, 14>> :>
        [price |-> 25506178, delta |-> 3601, gamma |-> 3518, theta |-> -7719, vega |-> 28426, rho |-> 7634] @@
    <<"call", 2650, 2700, 427, 18>> :>
        [price |-> 37058245, delta |-> 3942, gamma |-> 2814, theta |-> -9950, vega |-> 29237, rho |-> 8281] @@
    <<"call", 2650, 2700, 427, 36>> :>
        [price |-> 90813380, delta |-> 4620, gamma |-> 1452, theta |-> -19428, vega |-> 30171, rho |-> 9315] @@
    <<"call", 2700, 2600, 0, 14>> :>
        [price |-> 109912957, delta |-> 8316, gamma |-> 2321, theta |-> -4544, vega |-> 19472, rho |-> 17550] @@
    <<"call", 2700, 2600, 0, 18>> :>
        [price |-> 118515989, delta |-> 7755, gamma |-> 2150, theta |-> -6955, vega |-> 23185, rho |-> 16236] @@
    <<"call", 2700, 2600, 0, 36>> :>
        [price |-> 166267663, delta |-> 6618, gamma |-> 1312, theta |-> -16984, vega |-> 28306, rho |-> 13319] @@
    <<"call", 2700, 2600, 427, 14>> :>
        [price |-> 117495054, delta |-> 8526, gamma |-> 2126, theta |-> -6717, vega |-> 17835, rho |-> 17956] @@
    <<"call", 2700, 2600, 427, 18>> :>
        [price |-> 125531344, delta |-> 7954, gamma |-> 2037, theta |-> -8957, vega |-> 21970, rho |-> 16619] @@
    <<"call", 2700, 2600, 427, 36>> :>
        [price |-> 172003502, delta |-> 6741, gamma |-> 1293, theta |-> -18663, vega |-> 27891, rho |-> 13546] @@
    <<"call", 2700, 2650, 0, 14>> :>
        [price |-> 72391569, delta |-> 6864, gamma |-> 3272, theta |-> -6404, vega |-> 27444, rho |-> 14638] @@
    <<"call", 2700, 2650, 0, 18>> :>
        [price |-> 83637002, delta |-> 6510, gamma |-> 2656, theta |-> -8592, vega |-> 28641, rho |-> 13759] @@
    <<"call", 2700, 2650, 0, 36>> :>
        [price |-> 136891502, delta |-> 5920, gamma |-> 1393, theta |-> -18033, vega |-> 30056, rho |-> 12013] @@
    <<"call", 2700, 2650, 427, 14>> :>
        [price |-> 78775727, delta |-> 7168, gamma |-> 3124, theta |-> -8286, vega |-> 26202, rho |-> 15259] @@
    <<"call", 2700, 2650, 427, 18>> :>
        [price |-> 89619980, delta |-> 6758, gamma |-> 2580, theta |-> -10379, vega |-> 27831, rho |-> 14261] @@
    <<"call", 2700, 2650, 427, 36>> :>
        [price |-> 142074199, delta |-> 6052, gamma |-> 1382, theta |-> -19626, vega |-> 29802, rho |-> 12262] @@
    <<"call", 2700, 2700, 0, 14>> :>
        [price |-> 43230167, delta |-> 5080, gamma |-> 3681, theta |-> -7204, vega |-> 30875, rho |-> 10918] @@
    <<"call", 2700, 2700, 0, 18>> :>
        [price |-> 55579207, delta |-> 5103, gamma |-> 2862, theta |-> -9261, vega |-> 30870, rho |-> 10867] @@
    <<"call", 2700, 2700, 0, 36>> :>
        [price |-> 111121426, delta |-> 5206, gamma |-> 1430, theta |-> -18504, vega |-> 30840, rho |-> 10639] @@
    <<"call", 2700, 2700, 427, 14>> :>
        [price |-> 48048930, delta |-> 5428, gamma |-> 3660, theta |-> -8822, vega |-> 30703, rho |-> 11651] @@
    <<"call", 2700, 2700, 427, 18>> :>
        [price |-> 60339720, delta |-> 5374, gamma |-> 2851, theta |-> -10850, vega |-> 30745, rho |-> 11429] @@
    <<"call", 2700, 2700, 427, 36>> :>
        [price |-> 115720483, delta |-> 5341, gamma |-> 1426, theta |-> -20012, vega |-> 30768, rho |-> 10902] @@
    <<"put", 2600, 2600, 0, 14>> :>
        [price |-> 41629049, delta |-> -4920, gamma |-> 3822, theta |-> -6937, vega |-> 29731, rho |-> -10856] @@
    <<"put", 2600, 2600, 0, 18>> :>
        [price |-> 53520718, delta |-> -4897, gamma |-> 2972, theta |-> -8918, vega |-> 29727, rho |-> -10905] @@
    <<"put", 2600, 2600, 0, 36>> :>
        [price |-> 107005817, delta |-> -4794, gamma |-> 1485, theta |-> -17818, vega |-> 29697, rho |-> -11125] @@
    <<"put", 2600, 2600, 427, 14>> :>
        [price |-> 37160402, delta |-> -4572, gamma |-> 3801, theta |-> -5465, vega |-> 29566, rho |-> -10076] @@
    <<"put", 2600, 2600, 427, 18>> :>
        [price |-> 48995978, delta |-> -4626, gamma |-> 2960, theta |-> -7417, vega |-> 29606, rho |-> -10289] @@
    <<"put", 2600, 2600, 427, 36>> :>
        [price |-> 102325602, delta |-> -4659, gamma |-> 1481, theta |-> -16240, vega |-> 29628, rho |-> -10797] @@
    <<"put", 2600, 2650, 0, 14>> :>
        [price |-> 71674755, delta |-> -6753, gamma |-> 3448, theta |-> -6258, vega |-> 26819, rho |-> -15020] @@
    <<"put", 2600, 2650, 0, 18>> :>
        [price |-> 82674300, delta |-> -6343, gamma |-> 2803, theta |-> -8411, vega |-> 28035, rho |-> -14235] @@
    <<"put", 2600, 2650, 0, 36>> :>
        [price |-> 134867774, delta |-> -5529, gamma |-> 1474, theta |-> -17685, vega |-> 29475, rho |-> -12924] @@
    <<"put", 2600, 2650, 427, 14>> :>
        [price |-> 65417845, delta |-> -6432, gamma |-> 3574, theta |-> -4454, vega |-> 27800, rho |-> -14283] @@
    <<"put", 2600, 2650, 427, 18>> :>
        [price |-> 76724107, delta |-> -6085, gamma |-> 2863, theta |-> -6649, vega |-> 28631, rho |-> -13633] @@
    <<"put", 2600, 2650, 427, 36>> :>
        [price |-> 129420436, delta |-> -5394, gamma |-> 1479, theta |-> -15963, vega |-> 29592, rho |-> -12591] @@
    <<"put", 2600, 2700, 0, 14>> :>
        [price |-> 109912957, delta |-> -8213, gamma |-> 2503, theta |-> -4544, vega |-> 19472, rho |-> -18454] @@
    <<"put", 2600, 2700, 0, 18>> :>
        [price |-> 118515989, delta |-> -7598, gamma |-> 2318, theta |-> -6955, vega |-> 23185, rho |-> -17210] @@
    <<"put", 2600, 2700, 0, 36>> :>
        [price |-> 166267663, delta |-> -6233, gamma |-> 1415, theta |-> -16984, vega |-> 28306, rho |-> -14686] @@
    <<"put", 2600, 2700, 427, 14>> :>
        [price |-> 102153840, delta |-> -7975, gamma |-> 2703, theta |-> -2360, vega |-> 21023, rho |-> -17882] @@
    <<"put", 2600, 2700, 427, 18>> :>
        [price |-> 111278074, delta |-> -7381, gamma |-> 2427, theta |-> -4905, vega |-> 24268, rho |-> -16688] @@
    <<"put", 2600, 2700, 427, 36>> :>
        [price |-> 160066930, delta |-> -6103, gamma |-> 1430, theta |-> -15113, vega |-> 28593, rho |-> -14357] @@
    <<"put", 2650, 2600, 0, 14>> :>
        [price |-> 21674755, delta |-> -3104, gamma |-> 3319, theta |-> -6258, vega |-> 26819, rho |-> -6939] @@
    <<"put", 2650, 2600, 0, 18>> :>
        [price |-> 32674300, delta |-> -3465, gamma |-> 2698, theta |-> -8411, vega |-> 28035, rho |-> -7815] @@
    <<"put", 2650, 2600, 0, 36>> :>
        [price |-> 84867774, delta |-> -4067, gamma |-> 1419, theta |-> -17685, vega |-> 29475, rho |-> -9555] @@
    <<"put", 2650, 2600, 427, 14>> :>
        [price |-> 18858050, delta |-> -2803, gamma |-> 3166, theta |-> -5079, vega |-> 25586, rho |-> -6259] @@
    <<"put", 2650, 2600, 427, 18>> :>
        [price |-> 29458831, delta |-> -3217, gamma |-> 2621, theta |-> -7137, vega |-> 27229, rho |-> -7249] @@
    <<"put", 2650, 2600, 427, 36>> :>
        [price |-> 80856145, delta |-> -3935, gamma |-> 1406, theta |-> -16219, vega |-> 29223, rho |-> -9236] @@
    <<"put", 2650, 2650, 0, 14>> :>
        [price |-> 42429608, delta |-> -4920, gamma |-> 3750, theta |-> -7071, vega |-> 30303, rho |-> -11065] @@
    <<"put", 2650, 2650, 0, 18>> :>
        [price |-> 54549962, delta |-> -4897, gamma |-> 2916, theta |-> -9090, vega |-> 30299, rho |-> -11115] @@
    <<"put", 2650, 2650, 0, 36>> :>
        [price |-> 109063622, delta |-> -4794, gamma |-> 1457, theta |-> -18161, vega |-> 30269, rho |-> -11339] @@
    <<"put", 2650, 2650, 427, 14>> :>
        [price |-> 37875025, delta |-> -4572, gamma |-> 3729, theta |-> -5570, vega |-> 30134, rho |-> -10269] @@
    <<"put", 2650, 2650, 427, 18>> :>
        [price |-> 49938208, delta |-> -4626, gamma |-> 2904, theta |-> -7560, vega |-> 30176, rho |-> -10487] @@
    <<"put", 2650, 2650, 427, 36>> :>
        [price |-> 104293402, delta |-> -4659, gamma |-> 1453, theta |-> -16552, vega |-> 30198, rho |-> -11005] @@
    <<"put", 2650, 2700, 0, 14>> :>
        [price |-> 72391569, delta |-> -6721, gamma |-> 3396, theta |-> -6404, vega |-> 27444, rho |-> -15233] @@
    <<"put", 2650, 2700, 0, 18>> :>
        [price |-> 83637002, delta |-> -6317, gamma |-> 2757, theta |-> -8592, vega |-> 28641, rho |-> -14447] @@
    <<"put", 2650, 2700, 0, 36>> :>
        [price |-> 136891502, delta |-> -5515, gamma |-> 1446, theta |-> -18033, vega |-> 30056, rho |-> -13138] @@
    <<"put", 2650, 2700, 427, 14>> :>
        [price |-> 66046897, delta |-> -6399, gamma |-> 3518, theta |-> -4572, vega |-> 28426, rho |-> -14480] @@
    <<"put", 2650, 2700, 427, 18>> :>
        [price |-> 77598964, delta |-> -6058, gamma |-> 2814, theta |-> -6802, vega |-> 29237, rho |-> -13833] @@
    <<"put", 2650, 2700, 427, 36>> :>
        [price |-> 131354099, delta |-> -5380, gamma |-> 1452, theta |-> -16281, vega |-> 30171, rho |-> -12799] @@
    <<"put", 2700, 2600, 0, 14>> :>
        [price |-> 9912957, delta |-> -1684, gamma |-> 2321, theta |-> -4544, vega |-> 19472, rho |-> -3819] @@
    <<"put", 2700, 2600, 0, 18>> :>
        [price |-> 18515989, delta |-> -2245, gamma |-> 2150, theta |-> -6955, vega |-> 23185, rho |-> -5134] @@
    <<"put", 2700, 2600, 0, 36>> :>
        [price |-> 66267663, delta |-> -3382, gamma |-> 1312, theta |-> -16984, vega |-> 28306, rho |-> -8051] @@
    <<"put", 2700, 2600, 427, 14>> :>
        [price |-> 8386116, delta |-> -1474, gamma |-> 2126, theta |-> -3686, vega |-> 17835, rho |-> -3339] @@
    <<"put", 2700, 2600, 427, 18>> :>
        [price |-> 16422406, delta |-> -2046, gamma |-> 2037, theta |-> -5926, vega |-> 21970, rho |-> -4676] @@
    <<"put", 2700, 2600, 427, 36>> :>
        [price |-> 62894564, delta |-> -3259, gamma |-> 1293, theta |-> -15632, vega |-> 27891, rho |-> -7749] @@
    <<"put", 2700, 2650, 0, 14>> :>
        [price |-> 22391569, delta |-> -3136, gamma |-> 3272, theta |-> -6404, vega |-> 27444, rho |-> -7143] @@
    <<"put", 2700, 2650, 0, 18>> :>
        [price |-> 33637002, delta |-> -3490, gamma |-> 2656, theta |-> -8592, vega |-> 28641, rho |-> -8021] @@
    <<"put", 2700, 2650, 0, 36>> :>
        [price |-> 86891502, delta |-> -4080, gamma |-> 1393, theta |-> -18033, vega |-> 30056, rho |-> -9768] @@
    <<"put", 2700, 2650, 427, 14>> :>
        [price |-> 19491617, delta |-> -2832, gamma |-> 3124, theta |-> -5196, vega |-> 26202, rho |-> -6446] @@
    <<"put", 2700, 2650, 427, 18>> :>
        [price |-> 30335871, delta |-> -3242, gamma |-> 2580, theta |-> -7290, vega |-> 27831, rho |-> -7444] @@
    <<"put", 2700, 2650, 427, 36>> :>
        [price |-> 82790089, delta |-> -3948, gamma |-> 1382, theta |-> -16537, vega |-> 29802, rho |-> -9443] @@
    <<"put", 2700, 2700, 0, 14>> :>
        [price |-> 43230167, delta |-> -4920, gamma |-> 3681, theta |-> -7204, vega |-> 30875, rho |-> -11274] @@
    <<"put", 2700, 2700, 0, 18>> :>
        [price |-> 55579207, delta |-> -4897, gamma |-> 2862, theta |-> -9261, vega |-> 30870, rho |-> -11324] @@
    <<"put", 2700, 2700, 0, 36>> :>
        [price |-> 111121426, delta |-> -4794, gamma |-> 1430, theta |-> -18504, vega |-> 30840, rho |-> -11553] @@
    <<"put", 2700, 2700, 427, 14>> :>
        [price |-> 38589648, delta |-> -4572, gamma |-> 3660, theta |-> -5675, vega |-> 30703, rho |-> -10463] @@
    <<"put", 2700, 2700, 427, 18>> :>
        [price |-> 50880439, delta |-> -4626, gamma |-> 2851, theta |-> -7703, vega |-> 30745, rho |-> -10685] @@
    <<"put", 2700, 2700, 427, 36>> :>
        [price |-> 106261202, delta |-> -4659, gamma |-> 1426, theta |-> -16865, vega |-> 30768, rho |-> -11212]

ZeroValues == [price |-> 0, delta |-> 0, gamma |-> 0, theta |-> 0, vega |-> 0, rho |-> 0]

\* Event::hasOccurred against the process-wide evaluation date (reference-date
\* events are not included): an option whose exercise date is not after the
\* evaluation date is expired, and is valued 0 with all Greeks 0.
IsExpired(maturity, evalDate) == maturity <= evalDate

\* The engine refuses a non-positive underlying ("negative or null underlying
\* given") and a negative strike.
EngineRaises(spot, strike) == spot <= 0 \/ strike < 0

\* option.NPV() and the Greeks, lines 138-143, for an option of analyzer-date
\* `selfToday` while the evaluation date is `evalDate`
EngineValues(selfToday, evalDate, spot, strike, rate, volatility, maturity_days, option_type) ==
    IF IsExpired(selfToday + maturity_days, evalDate)
    THEN [raised |-> FALSE, values |-> ZeroValues]
    ELSE IF EngineRaises(spot, strike)
    THEN [raised |-> TRUE, values |-> ZeroValues]
    ELSE [raised |-> FALSE,
          values |-> EngineTable[<<option_type, spot, strike, rate, volatility>>]]

Max(a, b) == IF a > b THEN a ELSE b

\* The call rule applied to puts as well.
MoneynessCallOnly(spot, strike, option_type) ==
    IF spot > strike THEN "ITM" ELSE IF spot < strike THEN "OTM" ELSE "ATM"

\* lines 154-158
Moneyness(spot, strike, option_type) ==
    IF option_type = "call"
    THEN (IF spot > strike THEN "ITM" ELSE IF spot < strike THEN "OTM" ELSE "ATM")
    ELSE (IF spot < strike THEN "ITM" ELSE IF spot > strike THEN "OTM" ELSE "ATM")

Intrinsic(spot, strike, option_type) ==
    IF option_type = "call" THEN Max(0, spot - strike) ELSE Max(0, strike - spot)

\* black_scholes_analysis(spot, strike, rate, volatility, maturity_days,
\* option_type) on an analyzer whose self.today is selfToday.  price,
\* intrinsic_value and time_value are in 1e-4, breakeven in 1e-2; spot and
\* strike are whole numbers, so they are added after the rounding.  `caught`
\* records the exception the bare except of line 144 swallowed; the Python
\* value carries no trace of it.
black_scholes_analysis(selfToday, evalDate, spot, strike, rate, volatility, maturity_days, option_type) ==
    LET eng == EngineValues(selfToday, evalDate, spot, strike, rate, volatility,
                            maturity_days, option_type)
        v == eng.values
        intrinsic == Intrinsic(spot, strike, option_type)
    IN  [kind |-> "return",
         caught |-> IF eng.raised THEN {"RuntimeError"} ELSE {},
         value |->
           [model |-> "Black-Scholes",
            inputs |-> [spot |-> spot, strike |-> strike, rate |-> rate,
                        volatility |-> volatility, maturity_days |-> maturity_days,
                        type |-> option_type],
            price |-> RoundHalfEven(v.price, 100),
            greeks |-> [delta |-> v.delta, gamma |-> v.gamma, theta |-> v.theta,
                        vega |-> v.vega, rho |-> v.rho],
            analysis |->
              [moneyness |-> Moneyness(spot, strike, option_type),
               intrinsic_value |-> 10000 * intrinsic,
               time_value |-> RoundHalfEven(v.price, 100) - 10000 * intrinsic,
               breakeven |->
                 IF option_type = "call"
                 THEN 100 * strike + RoundHalfEven(v.price, 10000)
                 ELSE 100 * strike + RoundHalfEven(-v.price, 10000)]]]

----------------------------------------------------------------------------
(* QuantLibAnalyzer.bond_analysis *)

\* Rates are in 1e-4 and years_to_maturity in quarters of a year.  With
\* D = 10000 * frequency the periodic yield is ytm / D and the coupon per
\* period is face_value * coupon_rate / D, so every discounted cash flow of a
\* bond of n periods is a fraction over (D + ytm)^n; the sums of the code are
\* carried as the numerators of that fraction, per unit of face value.

\* int(years_to_maturity * frequency), line 274
n_periods(quarters, frequency) == (quarters * frequency) \div 4

RECURSIVE Pow(_, _)
Pow(b, e) == IF e = 0 THEN 1 ELSE b * Pow(b, e - 1)

\* sum([coupon / (1 + ytm_period)**t for t in range(1, n_periods + 1)]),
\* line 279, from term t on
RECURSIVE pv_coupons(_, _, _, _, _)
pv_coupons(coupon_rate, ytm, D, n, t) ==
    IF t > n THEN 0
    ELSE coupon_rate * Pow(D, t - 1) * Pow(D + ytm, n - t)
         + pv_coupons(coupon_rate, ytm, D, n, t + 1)

\* face_value / (1 + ytm_period)**n_periods, line 280
pv_face(D, n) == Pow(D, n)

\* The redemption weighted as if periods were counted from one.
face_weight_from_one(D, n) == (n + 1) * Pow(D, n)

\* n_periods * face_value / (1 + ytm_period)**n_periods, line 285
face_weight(D, n) == n * Pow(D, n)

\* sum([t * coupon / (1 + ytm_period)**t ...]) + n_periods * face_value /
\* (1 + ytm_period)**n_periods, lines 284-285, from term t on
RECURSIVE weighted_cf(_, _, _, _, _)
weighted_cf(coupon_rate, ytm, D, n, t) ==
    IF t > n THEN face_weight(D, n)
    ELSE t * coupon_rate * Pow(D, t - 1) * Pow(D + ytm, n - t)
         + weighted_cf(coupon_rate, ytm, D, n, t + 1)

\* line 318: price > face_value, price < face_value, with the unrounded
\* price = face_value * num / den
PremiumDiscount(face_value, num, den) ==
    IF face_value * num > face_value * den THEN "Premium"
    ELSE IF face_value * num < face_value * den THEN "Discount"
    ELSE "Par"

\* the "inputs" entry of the result, lines 311-316: rates in 1e-2 percent
BondInputsEcho(face_value, coupon_rate, ytm, quarters) ==
    [face_value |-> face_value, coupon_rate |-> coupon_rate, ytm |-> ytm,
     years_to_maturity |-> quarters]

\* Fractions in lowest terms, for the quantities derived from the duration
RECURSIVE GCD(_, _)
GCD(a, b) == IF b = 0 THEN a ELSE GCD(b, a % b)

Abs(x) == IF x < 0 THEN -x ELSE x

\* num / den (den # 0) with a positive denominator
Frac(num, den) ==
    LET g == GCD(Abs(num), Abs(den))
        sign == IF den < 0 THEN -1 ELSE 1
    IN  [n |-> sign * (num \div g), d |-> sign * (den \div g)]

FracMul(x, y) ==
    LET a == Frac(x.n, y.d)
        b == Frac(y.n, x.d)
    IN  Frac(a.n * b.n, a.d * b.d)

FracAdd(x, y) == Frac(x.n * y.d + y.n * x.d, x.d * y.d)

\* round(x * scale) to a whole number
FracRound(x, scale) == RoundHalfEven(scale * x.n, x.d)

\* sum([t * (t + 1) * coupon / (1 + ytm_period)**(t + 2) ...]) +
\* n_periods * (n_periods + 1) * face_value / (1 + ytm_period)**(n_periods + 2),
\* lines 292-294, from term t on, as a multiple of D^2 / (D + ytm)^(n + 2)
RECURSIVE convexity_sum(_, _, _, _, _)
convexity_sum(coupon_rate, ytm, D, n, t) ==
    IF t > n THEN n * (n + 1) * Pow(D, n)
    ELSE t * (t + 1) * coupon_rate * Pow(D, t - 1) * Pow(D + ytm, n - t)
         + convexity_sum(coupon_rate, ytm, D, n, t + 1)

\* rate_changes, line 298, in basis points: the keys of rate_sensitivity are
\* f"{int(dr*10000)}bp"
rate_changes == {-100, -50, 50, 100}

\* lines 286-308 and 321-323: modified_duration and convexity to 3 decimals
\* (1e-3), and for each rate change the new price in cents and the change
\* in 1e-3 percent
bond_risk_measures(face_value, coupon_rate, ytm, quarters, frequency) ==
    LET n == n_periods(quarters, frequency)
        D == 10000 * frequency
        num == pv_coupons(coupon_rate, ytm, D, n, 1) + pv_face(D, n)
        den == Pow(D + ytm, n)
        price == Frac(face_value * num, den)
        mac_duration == Frac(weighted_cf(coupon_rate, ytm, D, n, 1), num * frequency)
        \* 1 / (1 + ytm_period)
        discount == Frac(D, D + ytm)
        mod_duration == FracMul(mac_duration, discount)
        per_period == Frac(D, (D + ytm) * frequency)
        convexity == FracMul(Frac(convexity_sum(coupon_rate, ytm, D, n, 1), num),
                             FracMul(per_period, per_period))
        approx_change(dr) ==
            FracAdd(FracMul(mod_duration, Frac(-dr, 10000)),
                    FracMul(convexity, Frac(dr * dr, 200000000)))
    IN  [modified_duration |-> FracRound(mod_duration, 1000),
         convexity |-> FracRound(convexity, 1000),
         rate_sensitivity |->
             [dr \in rate_changes |->
                 [price |-> FracRound(FracMul(price,
                                FracAdd(Frac(1, 1), approx_change(dr))), 100),
                  change_pct |-> FracRound(approx_change(dr), 100000)]]]

\* The fields whose exact values fit the integers of the model for every
\* bond: price in cents, current_yield in 1e-3 percent, macaulay_duration in
\* 1e-3 years.
bond_pricing(face_value, coupon_rate, ytm, quarters, frequency) ==
    LET n == n_periods(quarters, frequency)
        D == 10000 * frequency
        num == pv_coupons(coupon_rate, ytm, D, n, 1) + pv_face(D, n)
        den == Pow(D + ytm, n)
    IN  [inputs |-> BondInputsEcho(face_value, coupon_rate, ytm, quarters),
         price |-> RoundHalfEven(100 * face_value * num, den),
         premium_discount |-> PremiumDiscount(face_value, num, den),
         \* (coupon * frequency / price) * 100: face_value cancels
         current_yield |-> RoundHalfEven(10 * coupon_rate * den, num),
         macaulay_duration |->
             RoundHalfEven(1000 * weighted_cf(coupon_rate, ytm, D, n, 1),
                           num * frequency)]

\* bond_analysis(face_value, coupon_rate, ytm, years_to_maturity, frequency).
\* modified_duration, convexity and rate_sensitivity are carried for a bond
\* with no coupon period left; with a period left their exact values exceed
\* the integers of the model, and the record stops at macaulay_duration.
bond_analysis(face_value, coupon_rate, ytm, quarters, frequency) ==
    LET pricing == bond_pricing(face_value, coupon_rate, ytm, quarters, frequency)
        risk == bond_risk_measures(face_value, coupon_rate, ytm, quarters, frequency)
    IN  IF n_periods(quarters, frequency) = 0
        THEN [inputs |-> pricing.inputs, price |-> pricing.price,
              premium_discount |-> pricing.premium_discount,
              current_yield |-> pricing.current_yield,
              macaulay_duration |-> pricing.macaulay_duration,
              modified_duration |-> risk.modified_duration,
              convexity |-> risk.convexity,
              rate_sensitivity |-> risk.rate_sensitivity]
        ELSE pricing

----------------------------------------------------------------------------
(* QuantLibAnalyzer.volatility_surface_analysis *)

\* Volatilities are in 1e-6 (0.18 is 180000); the reported percentages
\* (round(v * 100, 2)) and the term structure (round(v, 4)) are in 1e-4.  An
\* optional argument is <<>> for None and <<x>> for the value x.

\* lines 338-345: the structure built when vol_data is None
DefaultSmile ==
    ("10D_Put" :> 234000) @@ ("25D_Put" :> 207000) @@ ("ATM" :> 180000) @@
    ("25D_Call" :> 171000) @@ ("10D_Call" :> 162000)

\* A missing point taken as 0.18 whatever the ATM vol is.
SmileVolFlat(vol_data, key) == Get(vol_data, key, 180000)

\* vol_data.get(key, vol_data.get("ATM", 0.18)), lines 348-349
SmileVol(vol_data, key) == Get(vol_data, key, Get(vol_data, "ATM", 180000))

\* The ladder with >= for >.
SkewInterpretationInclusive(skew) ==
    IF skew >= 30000 THEN "strong_downside_premium"
    ELSE IF skew >= 10000 THEN "normal_downside_hedge"
    ELSE IF skew >= -10000 THEN "balanced"
    ELSE "upside_demand"

\* lines 357-364: the four fixed strings, by skew > 0.03, > 0.01, > -0.01
SkewInterpretation(skew) ==
    IF skew > 30000 THEN "strong_downside_premium"
    ELSE IF skew > 10000 THEN "normal_downside_hedge"
    ELSE IF skew > -10000 THEN "balanced"
    ELSE "upside_demand"

\* The ratios in the reverse order: the shortest term the lowest.
TermStructureRising(atm_vol) ==
    ("1W" :> RoundHalfEven(9 * atm_vol, 1000)) @@
    ("1M" :> RoundHalfEven(atm_vol, 100)) @@
    ("3M" :> RoundHalfEven(92 * atm_vol, 10000)) @@
    ("6M" :> RoundHalfEven(95 * atm_vol, 10000)) @@
    ("1Y" :> RoundHalfEven(11 * atm_vol, 1000))

\* lines 367-373: round(atm_vol * ratio, 4) for the ratios 1.1, 1, 0.95,
\* 0.92 and 0.90
TermStructure(atm_vol) ==
    ("1W" :> RoundHalfEven(11 * atm_vol, 1000)) @@
    ("1M" :> RoundHalfEven(atm_vol, 100)) @@
    ("3M" :> RoundHalfEven(95 * atm_vol, 10000)) @@
    ("6M" :> RoundHalfEven(92 * atm_vol, 10000)) @@
    ("1Y" :> RoundHalfEven(9 * atm_vol, 1000))

\* volatility_surface_analysis(spot, rate, vol_data); rate is not used
volatility_surface_analysis(spot, rate, vol_data_arg) ==
    LET vol_data == IF vol_data_arg = <<>> THEN DefaultSmile ELSE vol_data_arg[1]
        put_vol == SmileVol(vol_data, "25D_Put")
        call_vol == SmileVol(vol_data, "25D_Call")
        atm_vol == Get(vol_data, "ATM", 180000)
        skew == put_vol - call_vol
        risk_reversal == call_vol - put_vol
        term_structure == TermStructure(atm_vol)
    IN  [spot |-> spot,
         atm_volatility |-> RoundHalfEven(atm_vol, 100),
         volatility_smile |-> [k \in DOMAIN vol_data |-> RoundHalfEven(vol_data[k], 100)],
         skew_metrics |->
             [skew |-> RoundHalfEven(skew, 100),
              risk_reversal |-> RoundHalfEven(risk_reversal, 100),
              \* (put_vol + call_vol) / 2 - atm_vol
              butterfly |-> RoundHalfEven(put_vol + call_vol - 2 * atm_vol, 200)],
         skew_interpretation |-> SkewInterpretation(skew),
         \* round(v * 100, 2) of a value of 4 decimals
         term_structure |-> term_structure,
         term_shape |-> IF term_structure["1W"] > term_structure["1M"]
                        THEN "BACKWARDATION" ELSE "CONTANGO"]

----------------------------------------------------------------------------
(* QuantLibAnalyzer.comprehensive_analysis and RiskManager.analyze *)

\* the keys of `results`, in the order the code fills them
SubAnalysisOrder == <<"vasicek", "yield_curve", "volatility", "bond_10y", "option_atm">>

\* The sample bond priced at the long-term rate the Vasicek entry reports,
\* once that entry is there.
BondYieldChained(market_data, results) ==
    IF "vasicek" \in DOMAIN results
    THEN results["vasicek"].long_term_rate \div 10
    ELSE Get(market_data, "us_10y", 427)

\* ytm = r0, line 450; `results` is in scope but not read
BondYield(market_data, results) == Get(market_data, "us_10y", 427)

\* The mapping with the rates the snapshot gives and no others.
YieldCurveRatesGivenOnly(market_data) ==
    LET given(label, key) == IF key \in DOMAIN market_data
                             THEN << <<label, market_data[key]>> >> ELSE <<>>
    IN  given("3M", "us_3m") \o given("2Y", "us_2y") \o given("10Y", "us_10y")
        \o given("30Y", "us_30y")

\* lines 423-428: the four rates, each with its default
YieldCurveRates(market_data) ==
    << <<"3M", Get(market_data, "us_3m", 450)>>,
       <<"2Y", Get(market_data, "us_2y", 359)>>,
       <<"10Y", Get(market_data, "us_10y", 427)>>,
       <<"30Y", Get(market_data, "us_30y", 450)>> >>

\* The sample option struck at the default index level.
OptionAtmStrikeFixed(spot) == 2650

\* strike = spot, line 457
OptionAtmStrike(spot) == spot

\* One of the five numbered blocks of comprehensive_analysis, lines 413-462:
\* what it stores under `key`, and what it swallowed on the way.  The blocks
\* read market_data only.  Every block returns normally for the arguments
\* passed here (kappa = 0.25).  The sample bond has 20 coupon periods; of
\* its entry only the echoed inputs are carried.
SubAnalysis(key, selfToday, evalDate, market_data, results) ==
    LET r0 == Get(market_data, "us_10y", 427)
        vix == Get(market_data, "vix", 18)
        spot == Get(market_data, "kospi", 2650)
    IN  CASE key = "vasicek" ->
               [value |-> VasicekResult(r0, 25, 350, 100).value, caught |-> {}]
          [] key = "yield_curve" ->
               [value |-> yield_curve_analysis(YieldCurveRates(market_data)),
                caught |-> {}]
          [] key = "volatility" ->
               [value |-> volatility_surface_analysis(spot, r0,
                              << ("10D_Put" :> 13000 * vix) @@ ("25D_Put" :> 11500 * vix) @@
                                 ("ATM" :> 10000 * vix) @@ ("25D_Call" :> 9500 * vix) @@
                                 ("10D_Call" :> 9000 * vix) >>),
                caught |-> {}]
          [] key = "bond_10y" ->
               [value |-> [inputs |-> BondInputsEcho(10000, 400,
                                          BondYield(market_data, results), 40)],
                caught |-> {}]
          [] key = "option_atm" ->
               LET option == black_scholes_analysis(selfToday, evalDate, spot,
                                                    OptionAtmStrike(spot),
                                                    r0, vix, 30, "call")
               IN  [value |-> option.value, caught |-> option.caught]

\* results[key] = ... : the block's value stored in the dict under construction
StoreSubAnalysis(key, selfToday, evalDate, market_data, acc) ==
    LET r == SubAnalysis(key, selfToday, evalDate, market_data, acc.value)
    IN  [value |-> (key :> r.value) @@ acc.value,
         caught |-> acc.caught \cup r.caught]

RECURSIVE RunSubAnalyses(_, _, _, _, _)
RunSubAnalyses(order, selfToday, evalDate, market_data, acc) ==
    IF order = <<>> THEN acc
    ELSE RunSubAnalyses(Tail(order), selfToday, evalDate, market_data,
                        StoreSubAnalysis(order[1], selfToday, evalDate, market_data, acc))

\* comprehensive_analysis(market_data): lines 411-464, the five blocks in the
\* order of the code; `caught` collects what the option pricing swallowed.
comprehensive_analysis(selfToday, evalDate, market_data) ==
    LET acc == RunSubAnalyses(SubAnalysisOrder, selfToday, evalDate, market_data,
                              [value |-> EmptyData, caught |-> {}])
    IN  [kind |-> "return", caught |-> acc.caught, value |-> acc.value]

\* analyze(move_value, vix_value, portfolio_value, market_data), lines 44-74,
\* called at clock reading `now`
analyze(now, selfToday, evalDate, move_value, vix_value, portfolio_value, market_data) ==
    LET risk_metrics == _calculate_risk_metrics(move_value, vix_value)
        ql_data == ("us_10y" :> Get(market_data, "us_10y", 427)) @@
                   ("us_2y" :> Get(market_data, "us_2y", 359)) @@
                   ("us_30y" :> Get(market_data, "us_30y", 450)) @@
                   ("vix" :> vix_value) @@
                   ("kospi" :> Get(market_data, "kospi", 2650))
        quantlib == comprehensive_analysis(selfToday, evalDate, ql_data)
    IN  [kind |-> "return",
         caught |-> quantlib.caught,
         value |-> [timestamp |-> now,
                    risk_metrics |-> risk_metrics,
                    position_sizing |->
                        _calculate_position_sizing(risk_metrics.risk_score,
                                                   portfolio_value),
                    \* confidence takes its default, 0.95
                    var_analysis |-> _calculate_var(portfolio_value, vix_value, 950),
                    quantlib |-> quantlib.value]]

----------------------------------------------------------------------------
(* InvestmentAdvisor.analyze_all: src/main.py *)

\* Here the macro layer's percent values and the rates handed on are both in
\* 1e-6 (4.27 is 4270000, 0.0427 is 42700), so that dividing by 100 is a
\* division; the sampled values are multiples of 100.

\* lines 52-62: the arguments analyze_all hands to RiskManager.analyze
\* (line 63), from macro_result["indicators"]
analyze_all_arguments(indicators, portfolio_value) ==
    LET vix_value == Get(indicators["vix"], "value", 18)
    IN  [move_value |-> indicators["move"]["value"],
         vix_value |-> vix_value,
         portfolio_value |-> portfolio_value,
         market_data |->
             [us_10y |-> Get(indicators["us_10y"], "value", 42700) \div 100,
              us_2y |-> Get(indicators["us_2y"], "value", 35900) \div 100,
              us_30y |-> Get(Get(indicators, "us_30y", EmptyData), "value", 45000)
                         \div 100,
              vix |-> vix_value,
              kospi |-> Get(indicators["kospi"], "value", 2650)]]

----------------------------------------------------------------------------
(* InvestmentAdvisor.make_decision: src/main.py *)

\* The Korean texts and keys of the source are carried as tags: the
\* allocation keys are "stocks", "bonds" and "cash", the action is named
\* after its decision.  adjusted_allocation is in 1e-3, which is also the
\* unit of position_size (f"{position_adj:.1%}": percent to one decimal).

\* lines 111-114: LOW adds 15, HIGH takes 15, any other level leaves the score
RiskTerm(risk_level) ==
    IF risk_level = "LOW" THEN 15
    ELSE IF risk_level = "HIGH" THEN -15
    ELSE 0

\* lines 102-126
DecisionScore(macro_signal, risk_level, sentiment, rotation_signal) ==
    50
    + (IF macro_signal = "BULLISH" THEN 20
       ELSE IF macro_signal = "BEARISH" THEN -20 ELSE 0)
    + RiskTerm(risk_level)
    + (IF sentiment = "POSITIVE" THEN 15
       ELSE IF sentiment = "NEGATIVE" THEN -15 ELSE 0)
    + (IF rotation_signal = "RISK_ON" THEN 10
       ELSE IF rotation_signal = "RISK_OFF" THEN -10 ELSE 0)

\* The ladder with > for >=.
FinalDecisionStrict(score) ==
    IF score > 70
    THEN [decision |-> "STRONG_BUY", allocation |-> [stocks |-> 70, bonds |-> 20, cash |-> 10]]
    ELSE IF score > 55
    THEN [decision |-> "BUY", allocation |-> [stocks |-> 60, bonds |-> 30, cash |-> 10]]
    ELSE IF score > 45
    THEN [decision |-> "HOLD", allocation |-> [stocks |-> 50, bonds |-> 35, cash |-> 15]]
    ELSE IF score > 30
    THEN [decision |-> "REDUCE", allocation |-> [stocks |-> 35, bonds |-> 45, cash |-> 20]]
    ELSE [decision |-> "SELL", allocation |-> [stocks |-> 20, bonds |-> 50, cash |-> 30]]

\* lines 129-148
FinalDecision(score) ==
    IF score >= 70
    THEN [decision |-> "STRONG_BUY", allocation |-> [stocks |-> 70, bonds |-> 20, cash |-> 10]]
    ELSE IF score >= 55
    THEN [decision |-> "BUY", allocation |-> [stocks |-> 60, bonds |-> 30, cash |-> 10]]
    ELSE IF score >= 45
    THEN [decision |-> "HOLD", allocation |-> [stocks |-> 50, bonds |-> 35, cash |-> 15]]
    ELSE IF score >= 30
    THEN [decision |-> "REDUCE", allocation |-> [stocks |-> 35, bonds |-> 45, cash |-> 20]]
    ELSE [decision |-> "SELL", allocation |-> [stocks |-> 20, bonds |-> 50, cash |-> 30]]

\* make_decision(analysis), lines 89-171, called at clock reading `now`
make_decision(now, analysis) ==
    LET macro_signal == analysis.macro.overall
        risk_level == analysis.risk.risk_metrics.risk_level
        risk_score == analysis.risk.risk_metrics.risk_score
        sentiment == analysis.sentiment.sentiment.overall_sentiment
        claude_analysis == Get(analysis.industry, "claude_analysis", EmptyData)
        top_sectors == Get(claude_analysis, "top_sectors", <<>>)
        rotation_signal == Get(claude_analysis, "rotation_signal", "NEUTRAL")
        score == DecisionScore(macro_signal, risk_level, sentiment, rotation_signal)
        final == FinalDecision(score)
    IN  [timestamp |-> now,
         score |-> score,
         decision |-> final.decision,
         action |-> final.decision,
         allocation |-> final.allocation,
         signals |-> [macro |-> macro_signal, risk |-> risk_level,
                      sentiment |-> sentiment, rotation |-> rotation_signal],
         recommendations |->
             [primary_sector |-> IF top_sectors # <<>>
                                 THEN Get(top_sectors[1], "name", "N/A") ELSE "N/A",
              catalysts |-> IF top_sectors # <<>>
                            THEN Get(top_sectors[1], "catalysts", <<>>) ELSE <<>>,
              position_size |-> analysis.risk.position_sizing.adjusted_allocation],
         risk_warning |-> risk_score > 70]

----------------------------------------------------------------------------
(* Inputs *)

\* the record of the module's own example, the same with every rate given,
\* and what a failed retrieval hands on (every value 0)
MarketDataSamples ==
    { EmptyData,
      ("us_10y" :> 427) @@ ("us_2y" :> 359) @@ ("kospi" :> 2650),
      ("us_10y" :> 427) @@ ("us_2y" :> 359) @@ ("us_30y" :> 450) @@ ("kospi" :> 2650),
      ("us_10y" :> 0) @@ ("us_2y" :> 0) @@ ("us_30y" :> 0) @@ ("kospi" :> 0) }

AnalyzeInputs ==
    [op : {"analyze"}, move_value : {99, 198}, vix_value : {18, 36},
     portfolio_value : {MinPortfolio}, market_data : MarketDataSamples]

ComprehensiveInputs ==
    [op : {"comprehensive_analysis"},
     market_data : { m @@ ("vix" :> v) : m \in MarketDataSamples, v \in {14, 18, 36} }
                   \cup MarketDataSamples]

\* Snapshots for the curve: each of us_3m, us_2y and us_30y absent, 0, a
\* fraction or a percent figure, us_10y absent, 0 or 0.0427
SnapshotRates ==
    LET Optional(key, values) == {EmptyData} \cup {key :> v : v \in values}
    IN  {a @@ b @@ c @@ d : a \in Optional("us_3m", {0, 430, 45000}),
                            b \in Optional("us_2y", {0, 359}),
                            c \in Optional("us_10y", {0, 427}),
                            d \in Optional("us_30y", {0, 450, 45000})}

SnapshotInputs == [op : {"comprehensive_analysis"}, market_data : SnapshotRates]

\* the same records, for the blocks of comprehensive_analysis taken one by one
BlockInputs ==
    [op : {"comprehensive_analysis_blocks"},
     market_data : {i.market_data : i \in ComprehensiveInputs}]

RiskMetricsInputs ==
    [op : {"_calculate_risk_metrics"}, move : MoveValues, vix : VixValues]

\* every risk score the metrics can return, and the neighbours of the level
\* thresholds
ScoreValues == {m + v : m \in {10, 25, 35, 45, 50}, v \in {10, 25, 35, 45, 50}}
               \cup {39, 40, 59, 79}

PositionSizingInputs ==
    [op : {"_calculate_position_sizing"}, risk_score : ScoreValues,
     portfolio_value : PortfolioValues]

\* confidence levels: the three of the table, and others (0.5, 0.975, 1.0)
ConfidenceValues == {900, 950, 990, 500, 975, 1000}

VarInputs ==
    [op : {"_calculate_var"}, portfolio_value : PortfolioValues, vix : VixValues,
     confidence : ConfidenceValues]

\* Yield mappings: four recognized labels and two that tenor_map lacks.  A
\* Python dict is a sequence of <<key, value>> with distinct keys.
CurveLabels == {"3M", "2Y", "10Y", "30Y", "15Y", "2y"}

CurveRates == {350, 400, 410}

DistinctKeys(s) == \A i, j \in DOMAIN s : i # j => s[i][1] # s[j][1]

CurveInputs ==
    [op : {"yield_curve_analysis"},
     rates : {s \in UNION {[1..n -> CurveLabels \X CurveRates] : n \in 0..MaxCurvePoints} :
                DistinctKeys(s)}]

OptionInputs ==
    [op : {"black_scholes_analysis"}, spot : {0, 2600, 2650, 2700},
     strike : {2600, 2650, 2700}, rate : {427}, volatility : {18},
     maturity_days : {0, 30}, option_type : {"call", "put"}]

\* What the macro layer reports for a rate: the fetched percent value (4.27),
\* the record of a failed retrieval (value 0, macro_layer.py line 75), and a
\* record without "value", which analyze_all provides for with .get
RateIndicators == { ("value" :> 4270000), ("value" :> 0), EmptyData }

\* VIX and KOSPI: fetched, or the record of a failed retrieval
VixIndicators == { ("value" :> 18), ("value" :> 0) }

KospiIndicators == { ("value" :> 2650), ("value" :> 0) }

\* macro_result["indicators"], with and without an "us_30y" entry; MOVE is
\* estimated as 5.5 x VIX (macro_layer.py line 271)
IndicatorSamples ==
    LET base == { ("us_10y" :> r10) @@ ("us_2y" :> r2) @@ ("vix" :> v) @@
                  ("kospi" :> k) @@ ("move" :> ("value" :> (11 * v["value"]) \div 2)) :
                    r10 \in RateIndicators, r2 \in RateIndicators,
                    v \in VixIndicators, k \in KospiIndicators }
    IN  base \cup { b @@ ("us_30y" :> r30) : b \in base, r30 \in RateIndicators }

AdvisorInputs ==
    [op : {"analyze_all"}, indicators : IndicatorSamples,
     portfolio_value : {MinPortfolio}]

\* analysis["risk"] as RiskManager.analyze fills it, for a MOVE and a VIX of
\* each risk level: scores 20, 50, 70, 75 and 100
RiskSamples ==
    { [risk_metrics |-> _calculate_risk_metrics(mv[1], mv[2]),
       position_sizing |->
           _calculate_position_sizing(_calculate_risk_metrics(mv[1], mv[2]).risk_score,
                                      MinPortfolio)] :
        mv \in { <<60, 10>>, <<99, 18>>, <<110, 22>>, <<99, 36>>, <<160, 40>> } }

\* analysis["industry"]: without claude_analysis, with an empty one, and with
\* a rotation signal and a list of top sectors
IndustrySamples ==
    { EmptyData, ("claude_analysis" :> EmptyData) }
    \cup { ("claude_analysis" :> (("rotation_signal" :> r) @@ ("top_sectors" :> t))) :
              r \in {"RISK_ON", "RISK_OFF", "NEUTRAL"},
              t \in { <<>>, << ("name" :> "Semiconductors") >> } }

DecisionInputs ==
    [op : {"make_decision"},
     analysis : [macro : [overall : {"BULLISH", "BEARISH", "NEUTRAL"}],
                 risk : RiskSamples,
                 sentiment : [sentiment : [overall_sentiment :
                                               {"POSITIVE", "NEGATIVE", "NEUTRAL"}]],
                 industry : IndustrySamples]]

\* Bonds with at most one coupon period left: face values, coupon rates and
\* yields around 4%, maturities of a quarter, half a year, three quarters
\* and a year, annual and semi-annual coupons.  A bond that the formula
\* prices exactly at face value with a period left (coupon_rate = ytm) is
\* left out: the binary sum pv_coupons + pv_face then lands on either side
\* of face_value.
BondInputs ==
    {b \in [op : {"bond_analysis"}, face_value : {10, 100, 1000},
            coupon_rate : {0, 400, 401, 500}, ytm : {0, 400, 401, 427},
            quarters : {1, 2, 3, 4}, frequency : {1, 2}] :
        /\ n_periods(b.quarters, b.frequency) <= 1
        /\ ~(b.coupon_rate = b.ytm /\ n_periods(b.quarters, b.frequency) = 1)}

\* Smile mappings: each of 25D_Put, 25D_Call, ATM and 10D_Put present or not
PutVols == {150000, 210000}

CallVols == {170000, 190000}

AtmVols == {190000}

\* ATM vols for the term structure: none at all, a few hundredths of a
\* percent, a tenth of a percent and more
SmallAtmVols == {0, 400, 520, 560, 660, 860, 1020, 1060}

SmileSamples ==
    LET Optional(key, vols) == {EmptyData} \cup {key :> v : v \in vols}
    IN  {p @@ c @@ a @@ t : p \in Optional("25D_Put", PutVols),
                            c \in Optional("25D_Call", CallVols),
                            a \in Optional("ATM", AtmVols),
                            t \in Optional("10D_Put", {260000})}
        \cup {"ATM" :> a : a \in SmallAtmVols}

\* vol_data = None, or a mapping
VolInputs ==
    [op : {"volatility_surface_analysis"}, spot : {0, 2650}, rate : {427},
     vol_data : {<<>>} \cup {<<m>> : m \in SmileSamples}]

KappaValues == {5 * k : k \in (-MaxKappaStep)..MaxKappaStep}

VasicekInputs ==
    [op : {"vasicek_analysis"}, r0 : {0, 427}, kappa : KappaValues,
     theta : {350, 400}, sigma : {0, 100}]

----------------------------------------------------------------------------
(* Actions *)

Date(tick) == tick * DaysPerTick

TypeOK ==
    /\ clock \in 0..MaxClock
    /\ constructed \subseteq Analyzers
    /\ output.kind \in {"none", "running", "return", "raise"}

\* time passes
Tick ==
    /\ clock < MaxClock
    /\ clock' = clock + 1
    /\ UNCHANGED <<evaluationDate, constructed, today, input, output>>

\* QuantLibAnalyzer.__init__ (also run by RiskManager.__init__, line 15):
\* reads the date and sets the process-wide evaluation date
Construct(a) ==
    /\ a \notin constructed
    /\ constructed' = constructed \cup {a}
    /\ today' = [today EXCEPT ![a] = Date(clock)]
    /\ evaluationDate' = Date(clock)
    /\ UNCHANGED <<clock, input, output>>

Analyze(a) ==
    /\ a \in constructed
    /\ input.op = "analyze"
    /\ output' = analyze(clock, today[a], evaluationDate, input.move_value,
                         input.vix_value, input.portfolio_value, input.market_data)
    /\ UNCHANGED <<clock, evaluationDate, constructed, today, input>>

ComprehensiveAnalysis(a) ==
    /\ a \in constructed
    /\ input.op = "comprehensive_analysis"
    /\ output' = comprehensive_analysis(today[a], evaluationDate, input.market_data)
    /\ UNCHANGED <<clock, evaluationDate, constructed, today, input>>

CalculateRiskMetrics(a) ==
    /\ a \in constructed
    /\ input.op = "_calculate_risk_metrics"
    /\ output' = [kind |-> "return", caught |-> {},
                  value |-> _calculate_risk_metrics(input.move, input.vix)]
    /\ UNCHANGED <<clock, evaluationDate, constructed, today, input>>

CalculatePositionSizing(a) ==
    /\ a \in constructed
    /\ input.op = "_calculate_position_sizing"
    /\ output' = [kind |-> "return", caught |-> {},
                  value |-> _calculate_position_sizing(input.risk_score,
                                                       input.portfolio_value)]
    /\ UNCHANGED <<clock, evaluationDate, constructed, today, input>>

CalculateVar(a) ==
    /\ a \in constructed
    /\ input.op = "_calculate_var"
    /\ output' = [kind |-> "return", caught |-> {},
                  value |-> _calculate_var(input.portfolio_value, input.vix,
                                           input.confidence)]
    /\ UNCHANGED <<clock, evaluationDate, constructed, today, input>>

YieldCurveAnalysis(a) ==
    /\ a \in constructed
    /\ input.op = "yield_curve_analysis"
    /\ output' = [kind |-> "return", caught |-> {},
                  value |-> yield_curve_analysis(input.rates)]
    /\ UNCHANGED <<clock, evaluationDate, constructed, today, input>>

BlackScholesAnalysis(a) ==
    /\ a \in constructed
    /\ input.op = "black_scholes_analysis"
    /\ output' = black_scholes_analysis(today[a], evaluationDate, input.spot,
                                        input.strike, input.rate, input.volatility,
                                        input.maturity_days, input.option_type)
    /\ UNCHANGED <<clock, evaluationDate, constructed, today, input>>

VasicekAnalysis(a) ==
    /\ a \in constructed
    /\ input.op = "vasicek_analysis"
    /\ output' = VasicekResult(input.r0, input.kappa, input.theta, input.sigma)
    /\ UNCHANGED <<clock, evaluationDate, constructed, today, input>>

BondAnalysis(a) ==
    /\ a \in constructed
    /\ input.op = "bond_analysis"
    /\ output' = [kind |-> "return", caught |-> {},
                  value |-> bond_analysis(input.face_value, input.coupon_rate,
                                          input.ytm, input.quarters, input.frequency)]
    /\ UNCHANGED <<clock, evaluationDate, constructed, today, input>>

VolatilitySurfaceAnalysis(a) ==
    /\ a \in constructed
    /\ input.op = "volatility_surface_analysis"
    /\ output' = [kind |-> "return", caught |-> {},
                  value |-> volatility_surface_analysis(input.spot, input.rate,
                                                        input.vol_data)]
    /\ UNCHANGED <<clock, evaluationDate, constructed, today, input>>

\* analyze_all up to the call of RiskManager.analyze: the result carries the
\* arguments of that call
AnalyzeAll(a) ==
    /\ a \in constructed
    /\ input.op = "analyze_all"
    /\ output' = [kind |-> "return", caught |-> {},
                  value |-> analyze_all_arguments(input.indicators,
                                                  input.portfolio_value)]
    /\ UNCHANGED <<clock, evaluationDate, constructed, today, input>>

MakeDecision(a) ==
    /\ a \in constructed
    /\ input.op = "make_decision"
    /\ output' = [kind |-> "return", caught |-> {},
                  value |-> make_decision(clock, input.analysis)]
    /\ UNCHANGED <<clock, evaluationDate, constructed, today, input>>

\* One block of comprehensive_analysis, run when the blocks are taken in any
\* order: it stores its entry in the results gathered so far.  `order` records
\* the blocks run; the call has returned once all five have.
RunSubAnalysis(a, key) ==
    /\ a \in constructed
    /\ input.op = "comprehensive_analysis_blocks"
    /\ output.kind \in {"none", "running"}
    /\ LET acc == IF output.kind = "none"
                  THEN [value |-> EmptyData, caught |-> {}, order |-> <<>>]
                  ELSE output
           new == StoreSubAnalysis(key, today[a], evaluationDate, input.market_data, acc)
           order == Append(acc.order, key)
       IN  /\ key \notin DOMAIN acc.value
           /\ output' = [kind |-> IF Len(order) = Len(SubAnalysisOrder)
                                  THEN "return" ELSE "running",
                         caught |-> new.caught, value |-> new.value, order |-> order]
    /\ UNCHANGED <<clock, evaluationDate, constructed, today, input>>

----------------------------------------------------------------------------
(* Specifications *)

\* The process: analyzers are constructed as time passes, and the call under
\* study is made on any of them, any number of times.
Init ==
    /\ clock = 0
    /\ evaluationDate = 0
    /\ constructed = {}
    /\ today = [a \in Analyzers |-> 0]
    /\ input \in AnalyzeInputs \cup ComprehensiveInputs
    /\ output = NoResult

Next ==
    \/ Tick
    \/ \E a \in Analyzers : Construct(a)
    \/ \E a \in Analyzers : Analyze(a)
    \/ \E a \in Analyzers : ComprehensiveAnalysis(a)

Spec == Init /\ [][Next]_vars

\* One RiskManager, and a call of one of its two pure scoring methods.
InitRisk ==
    /\ clock = 0
    /\ evaluationDate = 0
    /\ constructed = {1}
    /\ today = [a \in Analyzers |-> 0]
    /\ input \in RiskMetricsInputs \cup PositionSizingInputs
    /\ output = NoResult

NextRisk ==
    \/ CalculateRiskMetrics(1)
    \/ CalculatePositionSizing(1)

SpecRisk == InitRisk /\ [][NextRisk]_vars

\* One RiskManager, and a call of _calculate_var.
InitVar ==
    /\ clock = 0
    /\ evaluationDate = 0
    /\ constructed = {1}
    /\ today = [a \in Analyzers |-> 0]
    /\ input \in VarInputs
    /\ output = NoResult

NextVar == CalculateVar(1)

SpecVar == InitVar /\ [][NextVar]_vars

\* One analyzer, and a call of yield_curve_analysis.
InitCurve ==
    /\ clock = 0
    /\ evaluationDate = 0
    /\ constructed = {1}
    /\ today = [a \in Analyzers |-> 0]
    /\ input \in CurveInputs
    /\ output = NoResult

NextCurve == YieldCurveAnalysis(1)

SpecCurve == InitCurve /\ [][NextCurve]_vars

\* One analyzer, and a curve analysed directly or as part of
\* comprehensive_analysis.
InitCurveCalls ==
    /\ clock = 0
    /\ evaluationDate = 0
    /\ constructed = {1}
    /\ today = [a \in Analyzers |-> 0]
    /\ input \in CurveInputs \cup SnapshotInputs
    /\ output = NoResult

NextCurveCalls ==
    \/ YieldCurveAnalysis(1)
    \/ ComprehensiveAnalysis(1)

SpecCurveCalls == InitCurveCalls /\ [][NextCurveCalls]_vars

\* Analyzers are constructed as time passes, and options are priced on them.
InitOption ==
    /\ clock = 0
    /\ evaluationDate = 0
    /\ constructed = {}
    /\ today = [a \in Analyzers |-> 0]
    /\ input \in OptionInputs
    /\ output = NoResult

NextOption ==
    \/ Tick
    \/ \E a \in Analyzers : Construct(a)
    \/ \E a \in Analyzers : BlackScholesAnalysis(a)

SpecOption == InitOption /\ [][NextOption]_vars

\* One analyzer, and a call of vasicek_analysis.
InitVasicek ==
    /\ clock = 0
    /\ evaluationDate = 0
    /\ constructed = {1}
    /\ today = [a \in Analyzers |-> 0]
    /\ input \in VasicekInputs
    /\ output = NoResult

NextVasicek == VasicekAnalysis(1)

SpecVasicek == InitVasicek /\ [][NextVasicek]_vars

\* One analyzer, and the five blocks of comprehensive_analysis in any order.
InitCompose ==
    /\ clock = 0
    /\ evaluationDate = 0
    /\ constructed = {1}
    /\ today = [a \in Analyzers |-> 0]
    /\ input \in BlockInputs
    /\ output = NoResult

NextCompose == \E key \in {SubAnalysisOrder[i] : i \in DOMAIN SubAnalysisOrder} :
                   RunSubAnalysis(1, key)

SpecCompose == InitCompose /\ [][NextCompose]_vars

\* One InvestmentAdvisor (it owns one RiskManager), and a call of analyze_all.
InitAdvisor ==
    /\ clock = 0
    /\ evaluationDate = 0
    /\ constructed = {1}
    /\ today = [a \in Analyzers |-> 0]
    /\ input \in AdvisorInputs
    /\ output = NoResult

NextAdvisor == AnalyzeAll(1)

SpecAdvisor == InitAdvisor /\ [][NextAdvisor]_vars

\* One InvestmentAdvisor, and a call of make_decision as time passes.
InitDecision ==
    /\ clock = 0
    /\ evaluationDate = 0
    /\ constructed = {1}
    /\ today = [a \in Analyzers |-> 0]
    /\ input \in DecisionInputs
    /\ output = NoResult

NextDecision ==
    \/ Tick
    \/ MakeDecision(1)

SpecDecision == InitDecision /\ [][NextDecision]_vars

\* One analyzer, and a call of bond_analysis.
InitBond ==
    /\ clock = 0
    /\ evaluationDate = 0
    /\ constructed = {1}
    /\ today = [a \in Analyzers |-> 0]
    /\ input \in BondInputs
    /\ output = NoResult

NextBond == BondAnalysis(1)

SpecBond == InitBond /\ [][NextBond]_vars

\* One analyzer, and a smile analysed directly or as part of
\* comprehensive_analysis.
InitVolCalls ==
    /\ clock = 0
    /\ evaluationDate = 0
    /\ constructed = {1}
    /\ today = [a \in Analyzers |-> 0]
    /\ input \in VolInputs \cup ComprehensiveInputs
    /\ output = NoResult

NextVolCalls ==
    \/ VolatilitySurfaceAnalysis(1)
    \/ ComprehensiveAnalysis(1)

SpecVolCalls == InitVolCalls /\ [][NextVolCalls]_vars

\* One analyzer, and a call of volatility_surface_analysis.
InitVol ==
    /\ clock = 0
    /\ evaluationDate = 0
    /\ constructed = {1}
    /\ today = [a \in Analyzers |-> 0]
    /\ input \in VolInputs
    /\ output = NoResult

NextVol == VolatilitySurfaceAnalysis(1)

SpecVol == InitVol /\ [][NextVol]_vars

----------------------------------------------------------------------------
(* Properties of RiskManager, under SpecRisk *)

Returned(op) == input.op = op /\ output.kind = "return"

\* C1: the risk score is monotone: no MOVE and VIX that are both at most
\* the ones scored get a higher risk score than the one returned.
C1_RiskScoreMonotone ==
    Returned("_calculate_risk_metrics") =>
        \A m1 \in MoveValues, v1 \in VixValues :
            (m1 <= input.move /\ v1 <= input.vix) =>
                _calculate_risk_metrics(m1, v1).risk_score <= output.value.risk_score

C1_Witness ==
    /\ Returned("_calculate_risk_metrics")
    /\ input.move = 120 /\ input.vix = 20
    /\ output.value.risk_score = 80
    /\ _calculate_risk_metrics(119, 19).risk_score = 60

\* the contribution the specification assigns to a value, given the four
\* thresholds of its index
ClaimedContribution(x, t) ==
    CASE x < t[1] -> 10
      [] x >= t[1] /\ x < t[2] -> 25
      [] x >= t[2] /\ x < t[3] -> 35
      [] x >= t[3] /\ x < t[4] -> 45
      [] x >= t[4] -> 50

\* C2: move_contribution and vix_contribution are 10/25/35/45/50 by the
\* buckets of thresholds 80/100/120/150 and 15/20/25/35 (a value on a
\* threshold falls in the higher bucket), risk_score is their sum and lies
\* in 20..100; MOVE = 99, VIX = 18 scores 50.
C2_BucketedScore ==
    Returned("_calculate_risk_metrics") =>
        /\ output.value.move_contribution =
               ClaimedContribution(input.move, <<80, 100, 120, 150>>)
        /\ output.value.vix_contribution =
               ClaimedContribution(input.vix, <<15, 20, 25, 35>>)
        /\ output.value.risk_score =
               output.value.move_contribution + output.value.vix_contribution
        /\ output.value.risk_score \in 20..100
        /\ (input.move = 99 /\ input.vix = 18) => output.value.risk_score = 50

C2_Witness ==
    /\ Returned("_calculate_risk_metrics")
    /\ input.move = 80 /\ input.vix = 35
    /\ output.value.move_contribution = 25
    /\ output.value.vix_contribution = 50

\* C3: the risk level is LOW iff score < 40, MEDIUM iff 40 <= score < 60,
\* HIGH iff 60 <= score < 80, EXTREME iff score >= 80, and is one of the four.
C3_LevelByScore ==
    Returned("_calculate_risk_metrics") =>
        LET score == output.value.risk_score
            level == output.value.risk_level
        IN  /\ level \in {"LOW", "MEDIUM", "HIGH", "EXTREME"}
            /\ level = "LOW" <=> score < 40
            /\ level = "MEDIUM" <=> (40 <= score /\ score < 60)
            /\ level = "HIGH" <=> (60 <= score /\ score < 80)
            /\ level = "EXTREME" <=> score >= 80

C3_Witness ==
    /\ Returned("_calculate_risk_metrics")
    /\ output.value.risk_score = 60
    /\ output.value.risk_level = "HIGH"

\* what the specification's tables give for a score: risk_adjustment in
\* 1e-1 and stop_loss_pct in 1e-2
ClaimedAdjustment(score) ==
    IF score < 40 THEN 12 ELSE IF score < 60 THEN 10 ELSE IF score < 80 THEN 7 ELSE 4

ClaimedStopLoss(score) ==
    IF score < 40 THEN 5 ELSE IF score < 60 THEN 3 ELSE 2

\* the part of C4 that concerns every field but stop_loss_value
C4_Allocation ==
    LET r == output.value
    IN  /\ r.base_allocation = 100
        /\ r.risk_adjustment = ClaimedAdjustment(input.risk_score)
        /\ 100 * r.adjusted_allocation = r.base_allocation * 10 * r.risk_adjustment
        /\ r.max_position_value =
               RoundHalfEven(input.portfolio_value * r.adjusted_allocation, 1000)
        /\ r.stop_loss_pct = ClaimedStopLoss(input.risk_score)

\* C4 as stated: the position sizing follows the tables, and stop_loss_value
\* is max_position_value x stop_loss_pct computed from the reported (rounded)
\* max_position_value.
C4_AsStated ==
    Returned("_calculate_position_sizing") =>
        /\ C4_Allocation
        /\ output.value.stop_loss_value =
               RoundHalfEven(output.value.max_position_value * output.value.stop_loss_pct,
                             100)

\* C4, amended: the position sizing follows the tables, max_position_value is
\* portfolio_value x adjusted_allocation rounded to a whole number, and
\* stop_loss_value is the unrounded portfolio_value x adjusted_allocation x
\* stop_loss_pct rounded to a whole number, which is within 1 of the product
\* of the reported fields.
C4_PositionSizing ==
    Returned("_calculate_position_sizing") =>
        LET r == output.value
            fromReported == RoundHalfEven(r.max_position_value * r.stop_loss_pct, 100)
        IN  /\ C4_Allocation
            /\ r.stop_loss_value =
                   RoundHalfEven(input.portfolio_value * r.adjusted_allocation
                                     * r.stop_loss_pct, 100000)
            /\ r.stop_loss_value - fromReported \in {-1, 0, 1}

C4_Witness ==
    /\ Returned("_calculate_position_sizing")
    /\ input.portfolio_value = 1504 /\ input.risk_score = 50
    /\ output.value.max_position_value = 150
    /\ output.value.stop_loss_pct = 3
    /\ output.value.stop_loss_value = 5

----------------------------------------------------------------------------
(* Properties of yield_curve_analysis, under SpecCurve *)

RecognizedLabels == {"1M", "3M", "6M", "1Y", "2Y", "3Y", "5Y", "7Y", "10Y", "30Y"}

RecognizedKeys(rates) == {rates[i][1] : i \in DOMAIN rates} \cap RecognizedLabels

\* the mapping without its unrecognized entries
RECURSIVE OnlyRecognized(_)
OnlyRecognized(rates) ==
    IF rates = <<>> THEN <<>>
    ELSE (IF rates[1][1] \in RecognizedLabels THEN <<rates[1]>> ELSE <<>>)
         \o OnlyRecognized(Tail(rates))

IsError(value) == "error" \in DOMAIN value

\* C5: the call returns (it never raises); the result is the error record,
\* with no other field, exactly when fewer than two keys are recognized tenor
\* labels; otherwise data_points counts the recognized keys and the whole
\* result is the one of the mapping without its unrecognized entries.
C5_InsufficientData ==
    (input.op = "yield_curve_analysis" /\ output.kind # "none") =>
        LET n == Cardinality(RecognizedKeys(input.rates))
        IN  /\ output.kind = "return"
            /\ IsError(output.value) <=> n < 2
            /\ IsError(output.value) => DOMAIN output.value = {"error"}
            /\ ~IsError(output.value) =>
                /\ output.value.data_points = n
                /\ Len(output.value.forward_rates) = n - 1
                /\ output.value = yield_curve_analysis(OnlyRecognized(input.rates))

C5_Witness ==
    /\ Returned("yield_curve_analysis")
    /\ Len(input.rates) = 3
    /\ Cardinality(RecognizedKeys(input.rates)) = 1
    /\ IsError(output.value)

\* the classification the specification gives for a slope in 1e-4 (0.5% is 50)
ClaimedShape(slope) ==
    IF slope > 50 THEN "STEEP"
    ELSE IF slope > 0 THEN "NORMAL"
    ELSE IF slope > -50 THEN "FLAT"
    ELSE "INVERTED"

\* C6: with yields given as decimal fractions the curve is STEEP when the
\* slope exceeds 0.5%, NORMAL when 0 < slope <= 0.5%, FLAT when
\* -0.5% < slope <= 0, INVERTED when slope <= -0.5%.
C6_ShapeByFractionSlope ==
    (Returned("yield_curve_analysis") /\ ~IsError(output.value)) =>
        output.value.curve_shape =
            ClaimedShape((output.value.long_rate - output.value.short_rate) \div 10)

----------------------------------------------------------------------------
(* Properties of black_scholes_analysis, under SpecOption *)

\* C7: with maturity_days = 0 the reported price is the intrinsic value and
\* time_value is 0.
C7_ExpiryIsIntrinsic ==
    (Returned("black_scholes_analysis") /\ input.maturity_days = 0) =>
        /\ output.value.price = output.value.analysis.intrinsic_value
        /\ output.value.analysis.time_value = 0

\* C8: a failed pricing computation is never replaced by default values in a
\* normally shaped result: when the pricing engine raised, the call does not
\* return a valuation record.
C8_NoSilentFallback ==
    Returned("black_scholes_analysis") => output.caught = {}

----------------------------------------------------------------------------
(* Properties of vasicek_analysis, under SpecVasicek *)

\* C9: a call with kappa <= 0 never returns a forecast record.
C9_NonPositiveKappaFails ==
    (input.op = "vasicek_analysis" /\ input.kappa <= 0 /\ output.kind # "none") =>
        output.kind = "raise"

----------------------------------------------------------------------------
(* Properties of the public operations, under Spec *)

\* C10: two invocations of analyze, or of comprehensive_analysis, with
\* identical inputs return identical records, whenever and on whichever
\* analyzer they run: a call that follows an earlier one returns what the
\* earlier one returned.
C10_ReferentiallyTransparent ==
    [][(output.kind = "return" /\ output'.kind = "return") =>
           output'.value = output.value]_vars

----------------------------------------------------------------------------
(* Properties of black_scholes_analysis across analyzers, under SpecOption *)

\* C11: no component holds shared mutable state: constructing another
\* analyzer, or running an operation on it, changes nothing that a call on
\* this analyzer reads, so every call of black_scholes_analysis on an
\* analyzer returns what it returns when that analyzer is the only one the
\* process ever built (the evaluation date is then the analyzer's own date).
C11_NoSharedState ==
    [][\A a \in Analyzers :
          BlackScholesAnalysis(a) =>
              output' = black_scholes_analysis(today[a], today[a], input.spot,
                                               input.strike, input.rate,
                                               input.volatility, input.maturity_days,
                                               input.option_type)]_vars

\* C14: a call is ITM iff S > K, OTM iff S < K, ATM iff S = K, with intrinsic
\* value max(0, S - K); a put is ITM iff S < K, OTM iff S > K, ATM iff S = K,
\* with intrinsic value max(0, K - S); so the intrinsic value is never
\* negative and is positive only when the option is ITM.
C14_MoneynessIntrinsic ==
    Returned("black_scholes_analysis") =>
        LET S == input.spot
            K == input.strike
            call == input.option_type = "call"
            itm == IF call THEN S > K ELSE S < K
            otm == IF call THEN S < K ELSE S > K
            an == output.value.analysis
        IN  /\ an.moneyness \in {"ITM", "OTM", "ATM"}
            /\ an.moneyness = "ITM" <=> itm
            /\ an.moneyness = "OTM" <=> otm
            /\ an.moneyness = "ATM" <=> S = K
            /\ an.intrinsic_value =
                   10000 * (IF itm THEN (IF call THEN S - K ELSE K - S) ELSE 0)
            /\ an.intrinsic_value >= 0
            /\ an.intrinsic_value > 0 => an.moneyness = "ITM"

C14_Witness ==
    /\ Returned("black_scholes_analysis")
    /\ input.option_type = "put"
    /\ input.spot = 2600 /\ input.strike = 2650
    /\ output.value.analysis.moneyness = "ITM"
    /\ output.value.analysis.intrinsic_value = 500000

\* K * e^(-r * tau) in 1e-4, for r = 4.27% and tau = maturity_days / 365
DiscountedStrike(strike, maturity_days) ==
    IF maturity_days = 0 THEN 10000 * strike
    ELSE CASE strike = 2600 -> 25908911
           [] strike = 2650 -> 26407159
           [] strike = 2700 -> 26905407

OtherType(option_type) == IF option_type = "call" THEN "put" ELSE "call"

\* C15: put-call parity: the call price and the put price that
\* black_scholes_analysis returns for identical inputs satisfy
\* call - put = S - K * e^(-r * tau), within the rounding of the two reported
\* prices, on every path of the function.
C15_PutCallParity ==
    [][\A a \in Analyzers :
          BlackScholesAnalysis(a) =>
              LET own == output'.value.price
                  other == black_scholes_analysis(today[a], evaluationDate, input.spot,
                               input.strike, input.rate, input.volatility,
                               input.maturity_days,
                               OtherType(input.option_type)).value.price
                  call_price == IF input.option_type = "call" THEN own ELSE other
                  put_price == IF input.option_type = "call" THEN other ELSE own
                  gap == (call_price - put_price)
                         - (10000 * input.spot
                            - DiscountedStrike(input.strike, input.maturity_days))
              IN  gap \in -2..2]_vars

----------------------------------------------------------------------------
(* Properties of comprehensive_analysis, under SpecCompose *)

\* C12: comprehensive_analysis has no ordering dependency between its
\* sub-analyses: whatever the order in which the five are evaluated over the
\* same market_data, each stores the entry the sequential code stores, and
\* the merged record (and what was swallowed on the way) is the one
\* comprehensive_analysis returns.
C12_OrderIndependent ==
    (input.op = "comprehensive_analysis_blocks" /\ output.kind # "none") =>
        LET sequential == comprehensive_analysis(today[1], evaluationDate,
                                                 input.market_data)
        IN  /\ \A key \in DOMAIN output.value :
                   output.value[key] = sequential.value[key]
            /\ output.kind = "return" =>
                   /\ output.value = sequential.value
                   /\ output.caught = sequential.caught

C12_Witness ==
    /\ input.op = "comprehensive_analysis_blocks"
    /\ output.kind = "return"
    /\ output.order = <<"option_atm", "bond_10y", "volatility", "yield_curve", "vasicek">>
    /\ output.value["bond_10y"].inputs.ytm = 427
    /\ output.value["option_atm"].price = 592223

----------------------------------------------------------------------------
(* Properties of the entries of comprehensive_analysis, under Spec *)

\* the record comprehensive_analysis returned, directly or inside analyze
QuantlibResult ==
    IF input.op = "analyze" THEN output.value.quantlib ELSE output.value

\* the market_data comprehensive_analysis was given: analyze passes ql_data,
\* whose vix is vix_value and whose rates and index have defaults
GivenMarketData ==
    IF input.op = "analyze"
    THEN ("vix" :> input.vix_value) @@ input.market_data
    ELSE input.market_data

\* C23: for every market snapshot, the option_atm entry is an at-the-money
\* call: its strike equals its spot (the snapshot's index level, 2650 when
\* absent), moneyness is ATM, intrinsic_value is 0 and time_value equals price.
C23_OptionAtmIsAtm ==
    (input.op \in {"analyze", "comprehensive_analysis"} /\ output.kind = "return") =>
        LET option == QuantlibResult["option_atm"]
        IN  /\ option.inputs.type = "call"
            /\ option.inputs.spot = Get(GivenMarketData, "kospi", 2650)
            /\ option.inputs.strike = option.inputs.spot
            /\ option.analysis.moneyness = "ATM"
            /\ option.analysis.intrinsic_value = 0
            /\ option.analysis.time_value = option.price

C23_Witness ==
    /\ Returned("comprehensive_analysis")
    /\ "kospi" \notin DOMAIN input.market_data
    /\ output.value["option_atm"].inputs.strike = 2650
    /\ output.value["option_atm"].price = 592223
    /\ output.value["option_atm"].analysis.time_value = 592223
    /\ output.value["option_atm"].analysis.moneyness = "ATM"

----------------------------------------------------------------------------
(* Properties of analyze_all, under SpecAdvisor *)

\* the documented decimal-fraction defaults, in 1e-6
DocumentedDefault == [us_10y |-> 42700, us_2y |-> 35900, us_30y |-> 45000]

FailedRetrieval == ("value" :> 0)

\* C27: when the VIX retrieval fails, analyze_all hands the risk layer the
\* fallback VIX of 18 and a MOVE derived from it, not 0: the risk metrics of
\* the handed values are never risk_score 20 / risk_level LOW, and the risk
\* level never adds the low-risk bonus to the decision score.
C27_FailedVixFallsBack ==
    (Returned("analyze_all") /\ input.indicators["vix"] = FailedRetrieval) =>
        LET handed == output.value
            metrics == _calculate_risk_metrics(handed.move_value, handed.vix_value)
        IN  /\ handed.vix_value = 18
            /\ handed.market_data.vix = 18
            /\ handed.move_value = 99
            /\ metrics.risk_score # 20
            /\ metrics.risk_level # "LOW"
            /\ RiskTerm(metrics.risk_level) # 15

----------------------------------------------------------------------------
(* Properties of make_decision, under SpecDecision *)

\* C24: the decision score is a score out of 100: for every combination of
\* macro signal, risk level, sentiment and rotation signal it lies in 0..100.
C24_ScoreOutOf100 ==
    Returned("make_decision") => output.value.score \in 0..100

\* the risk levels from the mildest to the worst
RiskRank(risk_level) ==
    CASE risk_level = "LOW" -> 1 [] risk_level = "MEDIUM" -> 2
      [] risk_level = "HIGH" -> 3 [] risk_level = "EXTREME" -> 4

\* the decisions from the most bearish to the most bullish
DecisionRank(decision) ==
    CASE decision = "SELL" -> 1 [] decision = "REDUCE" -> 2 [] decision = "HOLD" -> 3
      [] decision = "BUY" -> 4 [] decision = "STRONG_BUY" -> 5

\* C25: with macro signal, sentiment and rotation signal held fixed, the score
\* never increases as the risk level worsens along LOW, MEDIUM, HIGH, EXTREME:
\* no milder level gets a lower score, or a more bearish decision, than the
\* level decided on.
C25_ScoreFallsWithRisk ==
    Returned("make_decision") =>
        LET sig == output.value.signals
        IN  \A milder \in {"LOW", "MEDIUM", "HIGH", "EXTREME"} :
                RiskRank(milder) < RiskRank(sig.risk) =>
                    LET s == DecisionScore(sig.macro, milder, sig.sentiment, sig.rotation)
                    IN  /\ s >= output.value.score
                        /\ DecisionRank(FinalDecision(s).decision)
                               >= DecisionRank(output.value.decision)

\* the decision claimed for a score
ClaimedDecision(score) ==
    CASE score >= 70 -> "STRONG_BUY"
      [] score \in 55..69 -> "BUY"
      [] score \in 45..54 -> "HOLD"
      [] score \in 30..44 -> "REDUCE"
      [] score < 30 -> "SELL"

\* the stock share claimed to go with a decision rank, non-increasing from
\* STRONG_BUY down to SELL
StockShareFalls(decision, stocks) ==
    \A s \in -10..110 :
        LET other == FinalDecision(s)
        IN  DecisionRank(other.decision) <= DecisionRank(decision) =>
                other.allocation.stocks <= stocks

\* C26: every score gets exactly one decision (STRONG_BUY for >= 70, BUY for
\* 55..69, HOLD for 45..54, REDUCE for 30..44, SELL below 30), the allocation
\* percentages for stocks, bonds and cash sum to 100, and the stock share is
\* non-increasing from STRONG_BUY down to SELL.
C26_DecisionLadder ==
    Returned("make_decision") =>
        LET d == output.value
        IN  /\ d.decision = ClaimedDecision(d.score)
            /\ d.allocation.stocks + d.allocation.bonds + d.allocation.cash = 100
            /\ StockShareFalls(d.decision, d.allocation.stocks)

C26_Witness ==
    /\ Returned("make_decision")
    /\ output.value.score = 55
    /\ output.value.decision = "BUY"
    /\ output.value.allocation = [stocks |-> 60, bonds |-> 30, cash |-> 10]

----------------------------------------------------------------------------
(* Properties of the sorted curve, under SpecCurve *)

\* the positions of the recognized entries of a mapping
RecognizedPositions(rates) == {i \in DOMAIN rates : rates[i][1] \in RecognizedLabels}

\* the mapping with its entries in another order
Reordered(rates, p) == [i \in DOMAIN rates |-> rates[p[i]]]

\* C16: the reported slope is yield(longest recognized tenor) - yield(shortest
\* recognized tenor), in basis points, and the whole result is the same for
\* every order in which the entries appear in the input mapping.
C16_SlopeOrderIndependent ==
    (Returned("yield_curve_analysis") /\ ~IsError(output.value)) =>
        LET rates == input.rates
            rec == RecognizedPositions(rates)
            longest == CHOOSE i \in rec :
                           \A j \in rec : tenor_map[rates[j][1]] <= tenor_map[rates[i][1]]
            shortest == CHOOSE i \in rec :
                            \A j \in rec : tenor_map[rates[i][1]] <= tenor_map[rates[j][1]]
        IN  /\ output.value.slope_bps = 10 * (rates[longest][2] - rates[shortest][2])
            /\ \A p \in Permutations(DOMAIN rates) :
                   yield_curve_analysis(Reordered(rates, p)) = output.value

C16_Witness ==
    /\ Returned("yield_curve_analysis")
    /\ input.rates = << <<"30Y", 350>>, <<"10Y", 410>>, <<"3M", 400>> >>
    /\ output.value.slope_bps = -500
    /\ output.value.short_rate = 4000
    /\ output.value.long_rate = 3500

\* the yield the mapping gives for a tenor (in months)
RateAtTenor(rates, t) ==
    LET i == CHOOSE j \in RecognizedPositions(rates) : tenor_map[rates[j][1]] = t
    IN  rates[i][2]

\* C17: a curve of n >= 2 usable points has exactly n - 1 forward rates, one
\* for each pair of adjacent tenors in ascending order, each equal to
\* (r2*t2 - r1*t1) / (t2 - t1); adjacent tenors are distinct, so no division
\* is by zero and no two forward rates share a key.
C17_ForwardRates ==
    (Returned("yield_curve_analysis") /\ ~IsError(output.value)) =>
        LET rates == input.rates
            fr == output.value.forward_rates
            T == {tenor_map[rates[i][1]] : i \in RecognizedPositions(rates)}
            adjacent == {pair \in T \X T :
                            /\ pair[1] < pair[2]
                            /\ ~ \E c \in T : pair[1] < c /\ c < pair[2]}
        IN  /\ Len(fr) = Cardinality(T) - 1
            /\ {<<fr[i].t1, fr[i].t2>> : i \in DOMAIN fr} = adjacent
            /\ \A i, j \in DOMAIN fr :
                   /\ i < j => fr[i].t1 < fr[j].t1
                   /\ i # j => <<fr[i].t1, fr[i].t2>> # <<fr[j].t1, fr[j].t2>>
            /\ \A i \in DOMAIN fr :
                   /\ fr[i].t2 - fr[i].t1 > 0
                   /\ fr[i].fwd =
                          RoundHalfEven(10 * (RateAtTenor(rates, fr[i].t2) * fr[i].t2
                                              - RateAtTenor(rates, fr[i].t1) * fr[i].t1),
                                        fr[i].t2 - fr[i].t1)

C17_Witness ==
    /\ Returned("yield_curve_analysis")
    /\ input.rates = << <<"30Y", 410>>, <<"3M", 350>>, <<"2Y", 400>> >>
    /\ Len(output.value.forward_rates) = 2
    /\ output.value.forward_rates[1] = [t1 |-> 3, t2 |-> 24, fwd |-> 4071]
    /\ output.value.forward_rates[2].t1 = 24
    /\ output.value.forward_rates[2].t2 = 360

----------------------------------------------------------------------------
(* Properties of _calculate_var, under SpecVar *)

\* the claimed z, in 1e-3
ClaimedZ(confidence) ==
    CASE confidence = 900 -> 1280
      [] confidence = 950 -> 1645
      [] confidence = 990 -> 2330
      [] OTHER -> 1645

\* x lies within half a unit of num / den (den > 0): it is num / den rounded
Rounds(x, num, den) == (2 * x - 1) * den <= 2 * num /\ 2 * num <= (2 * x + 1) * den

\* C21: _calculate_var uses z = 1.28, 1.645, 2.33 for confidence 0.90, 0.95,
\* 0.99 and z = 1.645 for every other confidence, and returns for each of
\* them; var_1d = portfolio_value x (vix / 100) / sqrt(252) x z and
\* cvar_1d = 1.25 x var_1d, each reported to the whole unit.
C21_VarByConfidence ==
    (input.op = "_calculate_var" /\ output.kind # "none") =>
        LET num == input.portfolio_value * input.vix * ClaimedZ(input.confidence)
        IN  /\ output.kind = "return"
            /\ output.value.confidence_level = input.confidence
            /\ Rounds(output.value.var_1d, num, Sqrt252)
            /\ Rounds(output.value.cvar_1d, 5 * num, 4 * Sqrt252)

C21_Witness ==
    /\ Returned("_calculate_var")
    /\ input.confidence = 975
    /\ input.portfolio_value = 1500 /\ input.vix = 20
    /\ output.value.var_1d = 31
    /\ output.value.cvar_1d = 39

\* reported lies within the rounding of sqrt(days) x the one-day figure:
\* reported - 1/2 <= sqrt(days) x (var_1d + 1/2) and
\* reported + 1/2 >= sqrt(days) x (var_1d - 1/2), compared by their squares
ScalesBySqrt(reported, var_1d, days) ==
    /\ (2 * reported - 1) * (2 * reported - 1) <= days * (2 * var_1d + 1) * (2 * var_1d + 1)
    /\ var_1d >= 1 =>
           (2 * reported + 1) * (2 * reported + 1) >= days * (2 * var_1d - 1) * (2 * var_1d - 1)

\* C22 as stated: on the reported fields var_5d / var_1d = sqrt(5) and
\* var_20d / var_1d = sqrt(20), exactly.
C22_AsStated ==
    Returned("_calculate_var") =>
        LET v == output.value
        IN  /\ v.var_5d * v.var_5d = 5 * v.var_1d * v.var_1d
            /\ v.var_20d * v.var_20d = 20 * v.var_1d * v.var_1d

\* C22: var_5d and var_20d are the unrounded var_1d times sqrt(5) and
\* sqrt(20), each reported to the whole unit: on the reported fields they are
\* sqrt(5) x var_1d and sqrt(20) x var_1d up to the rounding of both fields.
C22_VarScaling ==
    Returned("_calculate_var") =>
        LET v == output.value
        IN  /\ ScalesBySqrt(v.var_5d, v.var_1d, 5)
            /\ ScalesBySqrt(v.var_20d, v.var_1d, 20)

C22_Witness ==
    /\ Returned("_calculate_var")
    /\ input.portfolio_value = 1500 /\ input.vix = 20 /\ input.confidence = 950
    /\ output.value.var_1d = 31
    /\ output.value.var_5d = 70
    /\ output.value.var_20d = 139

----------------------------------------------------------------------------
(* Properties of the curve of comprehensive_analysis, under SpecCurveCalls *)

KnownShapes == {"STEEP", "NORMAL", "FLAT", "INVERTED"}

\* C28: for every market_data record, whichever keys it has, the yield_curve
\* entry of comprehensive_analysis is never the insufficient-data error and
\* never has shape UNKNOWN: it has data_points = 4 (3M, 2Y, 10Y, 30Y, missing
\* rates filled by defaults), exactly 3 forward rates and a shape in {STEEP,
\* NORMAL, FLAT, INVERTED}; and yield_curve_analysis itself returns UNKNOWN
\* for no input.
C28_CurveAlwaysKnown ==
    /\ Returned("comprehensive_analysis") =>
           LET curve == output.value["yield_curve"]
           IN  /\ ~IsError(curve)
               /\ curve.data_points = 4
               /\ Len(curve.forward_rates) = 3
               /\ {curve.forward_rates[i].t1 : i \in 1..3} = {3, 24, 120}
               /\ curve.forward_rates[3].t2 = 360
               /\ curve.curve_shape \in KnownShapes
    /\ (Returned("yield_curve_analysis") /\ ~IsError(output.value)) =>
           output.value.curve_shape \in KnownShapes

C28_Witness ==
    /\ Returned("comprehensive_analysis")
    /\ input.market_data = ("us_3m" :> 45000)
    /\ output.value["yield_curve"].data_points = 4
    /\ output.value["yield_curve"].curve_shape = "INVERTED"
    /\ Len(output.value["yield_curve"].forward_rates) = 3

----------------------------------------------------------------------------
(* Properties of bond_analysis, under SpecBond *)

\* C18: premium_discount agrees with the reported price: Premium iff
\* price > face_value, Discount iff price < face_value, Par iff
\* price = face_value, exactly one label being assigned (price in cents).
C18_LabelAgreesWithPrice ==
    Returned("bond_analysis") =>
        LET label == output.value.premium_discount
            price == output.value.price
            face == 100 * input.face_value
        IN  /\ label \in {"Premium", "Discount", "Par"}
            /\ label = "Premium" <=> price > face
            /\ label = "Discount" <=> price < face
            /\ label = "Par" <=> price = face

----------------------------------------------------------------------------
(* Properties of volatility_surface_analysis, under SpecVol *)

\* the smile the call works on: the default structure when vol_data is None
GivenSmile == IF input.vol_data = <<>> THEN DefaultSmile ELSE input.vol_data[1]

\* vol(ATM), 0.18 when the mapping has no ATM point
AtmOf(smile) == IF "ATM" \in DOMAIN smile THEN smile["ATM"] ELSE 180000

\* vol of a 25-delta point, the ATM vol when the mapping has no such point
PointOf(smile, key) == IF key \in DOMAIN smile THEN smile[key] ELSE AtmOf(smile)

\* C19: for every smile mapping, whichever of 25D_Put, 25D_Call and ATM it
\* omits, skew = vol(25D_Put) - vol(25D_Call), risk_reversal = -skew and
\* butterfly = (vol(25D_Put) + vol(25D_Call)) / 2 - vol(ATM), a missing
\* 25-delta point being taken as the ATM vol (reported in percent).
C19_SkewMetrics ==
    Returned("volatility_surface_analysis") =>
        LET put == PointOf(GivenSmile, "25D_Put")
            call == PointOf(GivenSmile, "25D_Call")
            atm == AtmOf(GivenSmile)
            m == output.value.skew_metrics
        IN  /\ Rounds(m.skew, put - call, 100)
            /\ m.risk_reversal = -m.skew
            /\ Rounds(m.butterfly, put + call - 2 * atm, 200)

C19_Witness ==
    /\ Returned("volatility_surface_analysis")
    /\ input.vol_data = << ("25D_Put" :> 210000) @@ ("ATM" :> 190000) >>
    /\ output.value.skew_metrics = [skew |-> 200, risk_reversal |-> -200,
                                    butterfly |-> 100]

\* C20: exactly one of the four interpretations is selected, by the unrounded
\* skew: strong downside premium when skew > 3pp, normal downside hedge
\* demand when 1pp < skew <= 3pp, balanced when -1pp < skew <= 1pp, upside
\* demand when skew <= -1pp.
C20_SkewInterpretation ==
    Returned("volatility_surface_analysis") =>
        LET skew == PointOf(GivenSmile, "25D_Put") - PointOf(GivenSmile, "25D_Call")
            it == output.value.skew_interpretation
        IN  /\ it \in {"strong_downside_premium", "normal_downside_hedge",
                       "balanced", "upside_demand"}
            /\ it = "strong_downside_premium" <=> skew > 30000
            /\ it = "normal_downside_hedge" <=> (10000 < skew /\ skew <= 30000)
            /\ it = "balanced" <=> (-10000 < skew /\ skew <= 10000)
            /\ it = "upside_demand" <=> skew <= -10000

C20_Witness ==
    /\ Returned("volatility_surface_analysis")
    /\ input.vol_data = << ("25D_Put" :> 210000) >>
    /\ output.value.skew_metrics.skew = 300
    /\ output.value.skew_interpretation = "normal_downside_hedge"

----------------------------------------------------------------------------
(* Properties of the term structure, under SpecVolCalls *)

\* C30 as stated: the term shape is BACKWARDATION for every ATM vol from
\* 0.0005 up, and CONTANGO only below that.
C30_AsStated ==
    Returned("volatility_surface_analysis") =>
        LET atm == AtmOf(GivenSmile)
            shape == output.value.term_shape
        IN  /\ atm >= 500 => shape = "BACKWARDATION"
            /\ shape = "CONTANGO" => atm < 500

\* C30: the term shape is BACKWARDATION for every ATM vol from 0.001 up and
\* CONTANGO for an ATM vol of 0; in between it is CONTANGO whenever
\* 1.10 x ATM and ATM round to the same 4 decimals, and BACKWARDATION
\* otherwise; so for every VIX of 0.1 and more passed through
\* comprehensive_analysis the shape is BACKWARDATION.
C30_TermShape ==
    /\ Returned("volatility_surface_analysis") =>
           LET atm == AtmOf(GivenSmile)
               shape == output.value.term_shape
               same == \E v \in 0..10 : Rounds(v, atm, 100) /\ Rounds(v, 11 * atm, 1000)
           IN  /\ shape \in {"BACKWARDATION", "CONTANGO"}
               /\ atm >= 1000 => shape = "BACKWARDATION"
               /\ atm = 0 => shape = "CONTANGO"
               /\ (0 < atm /\ atm < 1000) => (shape = "CONTANGO" <=> same)
    /\ Returned("comprehensive_analysis") =>
           (Get(input.market_data, "vix", 18) >= 1 =>
                output.value["volatility"].term_shape = "BACKWARDATION")

C30_Witness ==
    /\ Returned("volatility_surface_analysis")
    /\ input.vol_data = << ("ATM" :> 560) >>
    /\ output.value.term_structure["1W"] = 6
    /\ output.value.term_structure["1M"] = 6
    /\ output.value.term_shape = "CONTANGO"

====
